---- MODULE Spec2Model ----
(***************************************************************************)
(* NutriBot nutrition analysis engine: the rule-based DietClassifier, the  *)
(* HealthScoreModel life cycle (train / predict / save / load) and the     *)
(* NutriAnalyzer orchestration with its suggestion generator; beside them  *)
(* the nutrition value extraction of the OCRProcessor and the RateLimiter. *)
(*                                                                         *)
(* Text is a sequence of one-character strings.  Confidences are integer   *)
(* percentages (0.95 is 95).  Scores are integers.                         *)
(***************************************************************************)
EXTENDS Integers, Sequences, FiniteSets, TLC

VARIABLES
  dcall,        \* the last DietClassifier call: function, inputs and result
  model,        \* HealthScoreModel.model: 0 = unfitted, else the run that fitted it
  scaler,       \* HealthScoreModel.scaler: 0 = unfitted, else the run that fitted it
  is_trained,   \* HealthScoreModel.is_trained
  model_file,   \* models/health_score_model.pkl on disk
  scaler_file,  \* models/scaler.pkl on disk
  last,         \* the last HealthScoreModel call: operation, outcome, value
  results,      \* the last NutriAnalyzer.analyze_product call and its result
  comparison,   \* the last NutriAnalyzer.compare_products call and its result
  pc,           \* the NutriAnalyzer: "new" before _load_models, "ready", "done"
  ocr,          \* the last OCRProcessor.extract_nutrition_values call and its result
  max_requests, \* RateLimiter.max_requests
  window_seconds, \* RateLimiter.window_seconds
  requests,     \* RateLimiter.requests: for each recorded client, its request times
  calls,        \* the RateLimiter.is_allowed calls made so far, with their answers
  now,          \* the clock time.time() reads
  trainer,      \* a thread in HealthScoreModel.train or load_model: its position
  predictor     \* a thread in predict_health_score: its position and X_scaled

\* the OCR call, the rate limiter and the threads that share a HealthScoreModel,
\* which the analysis engine does not touch
helpers ==
  <<ocr, max_requests, window_seconds, requests, calls, now, trainer, predictor>>

vars ==
  <<dcall, model, scaler, is_trained, model_file, scaler_file, last, results, comparison, pc,
    helpers>>

-----------------------------------------------------------------------------
(* Characters: Python's str.lower, and the regex classes \w and \s.          *)

UPPER == <<"A","B","C","D","E","F","G","H","I","J","K","L","M","N","O","P","Q","R","S","T",
           "U","V","W","X","Y","Z">>
LOWER == <<"a","b","c","d","e","f","g","h","i","j","k","l","m","n","o","p","q","r","s","t",
           "u","v","w","x","y","z">>
DIGITS == {"0","1","2","3","4","5","6","7","8","9"}

UpperChars == {UPPER[i] : i \in DOMAIN UPPER}
LowerChars == {LOWER[i] : i \in DOMAIN LOWER}
LowerOf == [c \in UpperChars |-> LOWER[CHOOSE i \in DOMAIN UPPER : UPPER[i] = c]]
WordChars == UpperChars \cup LowerChars \cup DIGITS \cup {"_"}
SpaceChars == {" ", "\n", "\t"}

lower_char(c) == IF c \in UpperChars THEN LowerOf[c] ELSE c

\* str.lower()
lower(text) == [i \in DOMAIN text |-> lower_char(text[i])]

\* regex \w
IsWordChar(c) == c \in WordChars

\* regex \s
IsSpace(c) == c \in SpaceChars

\* str.strip(): drop leading and trailing whitespace
RECURSIVE lstrip(_)
lstrip(text) ==
  IF text # <<>> /\ IsSpace(Head(text)) THEN lstrip(Tail(text)) ELSE text

RECURSIVE rstrip(_)
rstrip(text) ==
  IF text # <<>> /\ IsSpace(text[Len(text)])
    THEN rstrip(SubSeq(text, 1, Len(text) - 1))
    ELSE text

\* strip that drops nothing
strip_none(text) == text

strip(text) == rstrip(lstrip(text))

\* re.sub(r'[^\w\s]', ' ', text)
sub_punct(text) ==
  [i \in DOMAIN text |-> IF IsWordChar(text[i]) \/ IsSpace(text[i]) THEN text[i] ELSE " "]

\* re.sub(r'\s+', ' ', text)
RECURSIVE sub_spaces(_)
sub_spaces(text) ==
  IF text = <<>> THEN <<>>
  ELSE IF IsSpace(Head(text))
    THEN <<" ">> \o sub_spaces(lstrip(text))
    ELSE <<Head(text)>> \o sub_spaces(Tail(text))

\* DietClassifier._clean_text
clean_text(text) == strip(sub_spaces(sub_punct(lower(text))))

\* regex \b between positions p and p+1 of text (p = 0 and p = Len are the ends)
WordBoundary(text, p) ==
  LET before == p >= 1 /\ IsWordChar(text[p])
      after  == p < Len(text) /\ IsWordChar(text[p + 1])
  IN  before # after

\* the literal pat occurs in text at position i
OccursAt(pat, text, i) ==
  /\ i >= 1
  /\ i + Len(pat) - 1 <= Len(text)
  /\ \A k \in 1..Len(pat) : text[i + k - 1] = pat[k]

\* re.search(re.escape(keyword), text): the pattern without its \b anchors
search_anywhere(keyword, text) ==
  \E i \in 1..Len(text) : OccursAt(keyword, text, i)

\* re.search(r'\b' + re.escape(keyword) + r'\b', text)
search_word(keyword, text) ==
  \E i \in 1..Len(text) :
    /\ OccursAt(keyword, text, i)
    /\ WordBoundary(text, i - 1)
    /\ WordBoundary(text, i + Len(keyword) - 1)

\* Python's `keyword in text` on strings
substring_in(keyword, text) ==
  \/ keyword = <<>>
  \/ \E i \in 1..Len(text) : OccursAt(keyword, text, i)

-----------------------------------------------------------------------------
(* DietClassifier keyword tables.                                            *)

\* non_veg_keywords (diet_classifier.py:17-41)
non_veg_keywords ==
  {
    <<"b","e","e","f">>, <<"p","o","r","k">>, <<"c","h","i","c","k","e","n">>,
    <<"t","u","r","k","e","y">>, <<"d","u","c","k">>, <<"l","a","m","b">>,
    <<"m","u","t","t","o","n">>, <<"v","e","a","l">>, <<"h","a","m">>, <<"b","a","c","o","n">>,
    <<"s","a","u","s","a","g","e">>, <<"p","e","p","p","e","r","o","n","i">>,
    <<"s","a","l","a","m","i">>, <<"p","r","o","s","c","i","u","t","t","o">>, <<"m","e","a","t">>,
    <<"p","o","u","l","t","r","y">>, <<"g","a","m","e">>, <<"v","e","n","i","s","o","n">>,
    <<"g","o","a","t">>, <<"b","u","f","f","a","l","o">>, <<"f","i","s","h">>,
    <<"s","a","l","m","o","n">>, <<"t","u","n","a">>, <<"c","o","d">>,
    <<"m","a","c","k","e","r","e","l">>, <<"s","a","r","d","i","n","e">>,
    <<"a","n","c","h","o","v","y">>, <<"s","h","r","i","m","p">>, <<"p","r","a","w","n">>,
    <<"l","o","b","s","t","e","r">>, <<"c","r","a","b">>, <<"o","y","s","t","e","r">>,
    <<"m","u","s","s","e","l">>, <<"c","l","a","m">>, <<"s","c","a","l","l","o","p">>,
    <<"s","q","u","i","d">>, <<"o","c","t","o","p","u","s">>, <<"s","e","a","f","o","o","d">>,
    <<"c","a","v","i","a","r">>, <<"h","i","l","s","a">>, <<"r","o","h","u">>, <<"e","g","g">>,
    <<"e","g","g","s">>, <<"a","l","b","u","m","i","n">>, <<"e","g","g"," ","w","h","i","t","e">>,
    <<"e","g","g"," ","y","o","l","k">>, <<"w","h","o","l","e"," ","e","g","g">>,
    <<"e","g","g"," ","p","o","w","d","e","r">>, <<"d","r","i","e","d"," ","e","g","g">>,
    <<"l","i","q","u","i","d"," ","e","g","g">>, <<"m","a","y","o","n","n","a","i","s","e">>,
    <<"m","a","y","o">>, <<"g","e","l","a","t","i","n">>, <<"g","e","l","a","t","i","n","e">>,
    <<"c","a","r","m","i","n","e">>, <<"c","o","c","h","i","n","e","a","l">>,
    <<"i","s","i","n","g","l","a","s","s">>, <<"l","a","r","d">>, <<"t","a","l","l","o","w">>,
    <<"s","u","e","t">>, <<"r","e","n","n","e","t">>, <<"p","e","p","s","i","n">>,
    <<"b","o","n","e"," ","m","e","a","l">>, <<"a","n","i","m","a","l"," ","f","a","t">>,
    <<"b","e","e","f"," ","f","a","t">>, <<"p","o","r","k"," ","f","a","t">>,
    <<"c","h","i","c","k","e","n"," ","f","a","t">>, <<"f","i","s","h"," ","o","i","l">>,
    <<"l","-","c","y","s","t","e","i","n","e">>, <<"s","h","e","l","l","a","c">>,
    <<"l","a","n","o","l","i","n">>, <<"s","t","e","a","r","i","c"," ","a","c","i","d">>,
    <<"g","l","y","c","e","r","i","n"," ","f","r","o","m"," ","a","n","i","m","a","l">>
  }

\* vegetarian_keywords (diet_classifier.py:44-54)
vegetarian_keywords ==
  {
    <<"m","i","l","k">>, <<"c","r","e","a","m">>, <<"b","u","t","t","e","r">>,
    <<"c","h","e","e","s","e">>, <<"y","o","g","u","r","t">>, <<"y","o","g","h","u","r","t">>,
    <<"w","h","e","y">>, <<"c","a","s","e","i","n">>, <<"l","a","c","t","o","s","e">>,
    <<"d","a","i","r","y">>, <<"g","h","e","e">>, <<"p","a","n","e","e","r">>,
    <<"m","o","z","z","a","r","e","l","l","a">>, <<"c","h","e","d","d","a","r">>,
    <<"p","a","r","m","e","s","a","n">>, <<"f","e","t","a">>, <<"r","i","c","o","t","t","a">>,
    <<"c","o","n","d","e","n","s","e","d"," ","m","i","l","k">>,
    <<"e","v","a","p","o","r","a","t","e","d"," ","m","i","l","k">>,
    <<"m","i","l","k"," ","p","o","w","d","e","r">>, <<"b","u","t","t","e","r","m","i","l","k">>,
    <<"k","h","o","y","a">>, <<"m","a","w","a">>, <<"r","a","b","r","i">>, <<"m","a","l","a","i">>,
    <<"d","a","h","i">>, <<"l","a","s","s","i">>, <<"h","o","n","e","y">>,
    <<"b","e","e","s","w","a","x">>, <<"p","r","o","p","o","l","i","s">>,
    <<"r","o","y","a","l"," ","j","e","l","l","y">>
  }

\* pure_veg_keywords (diet_classifier.py:57-87)
pure_veg_keywords ==
  {
    <<"v","e","g","e","t","a","b","l","e">>, <<"f","r","u","i","t">>, <<"t","o","m","a","t","o">>,
    <<"p","o","t","a","t","o">>, <<"c","a","r","r","o","t">>, <<"s","p","i","n","a","c","h">>,
    <<"c","a","u","l","i","f","l","o","w","e","r">>, <<"b","r","o","c","c","o","l","i">>,
    <<"c","a","b","b","a","g","e">>, <<"p","e","a","s">>, <<"b","e","a","n","s">>,
    <<"r","i","c","e">>, <<"w","h","e","a","t">>, <<"f","l","o","u","r">>, <<"o","a","t">>,
    <<"b","a","r","l","e","y">>, <<"c","o","r","n">>, <<"m","i","l","l","e","t">>,
    <<"q","u","i","n","o","a">>, <<"b","u","c","k","w","h","e","a","t">>, <<"r","a","g","i">>,
    <<"b","a","j","r","a">>, <<"j","o","w","a","r">>, <<"d","a","l">>, <<"l","e","n","t","i","l">>,
    <<"c","h","i","c","k","p","e","a">>, <<"k","i","d","n","e","y"," ","b","e","a","n">>,
    <<"b","l","a","c","k"," ","b","e","a","n">>, <<"m","o","o","n","g">>,
    <<"m","a","s","o","o","r">>, <<"c","h","a","n","a">>, <<"r","a","j","m","a">>,
    <<"u","r","a","d">>, <<"t","o","o","r">>, <<"s","o","y">>, <<"t","o","f","u">>,
    <<"t","e","m","p","e","h">>, <<"s","e","i","t","a","n">>,
    <<"p","l","a","n","t"," ","p","r","o","t","e","i","n">>, <<"a","l","m","o","n","d">>,
    <<"c","a","s","h","e","w">>, <<"w","a","l","n","u","t">>, <<"p","e","a","n","u","t">>,
    <<"p","i","s","t","a","c","h","i","o">>, <<"s","e","s","a","m","e">>,
    <<"s","u","n","f","l","o","w","e","r"," ","s","e","e","d">>,
    <<"p","u","m","p","k","i","n"," ","s","e","e","d">>, <<"c","h","i","a"," ","s","e","e","d">>,
    <<"c","o","c","o","n","u","t"," ","o","i","l">>, <<"o","l","i","v","e"," ","o","i","l">>,
    <<"s","u","n","f","l","o","w","e","r"," ","o","i","l">>,
    <<"m","u","s","t","a","r","d"," ","o","i","l">>, <<"s","e","s","a","m","e"," ","o","i","l">>,
    <<"g","r","o","u","n","d","n","u","t"," ","o","i","l">>,
    <<"v","e","g","e","t","a","b","l","e"," ","o","i","l">>, <<"t","u","r","m","e","r","i","c">>,
    <<"c","u","m","i","n">>, <<"c","o","r","i","a","n","d","e","r">>,
    <<"c","a","r","d","a","m","o","m">>, <<"c","i","n","n","a","m","o","n">>,
    <<"c","l","o","v","e">>, <<"b","l","a","c","k"," ","p","e","p","p","e","r">>,
    <<"g","i","n","g","e","r">>, <<"m","i","n","t">>, <<"b","a","s","i","l">>,
    <<"p","l","a","n","t","-","b","a","s","e","d">>, <<"v","e","g","a","n">>,
    <<"p","u","r","e"," ","v","e","g","e","t","a","r","i","a","n">>,
    <<"n","o"," ","a","n","i","m","a","l"," ","p","r","o","d","u","c","t","s">>
  }

\* jain_restricted (diet_classifier.py:90-93)
jain_restricted ==
  {
    <<"o","n","i","o","n">>, <<"g","a","r","l","i","c">>, <<"p","o","t","a","t","o">>,
    <<"c","a","r","r","o","t">>, <<"r","a","d","i","s","h">>, <<"b","e","e","t","r","o","o","t">>,
    <<"g","i","n","g","e","r">>, <<"t","u","r","n","i","p">>, <<"l","e","e","k">>,
    <<"s","h","a","l","l","o","t">>, <<"s","c","a","l","l","i","o","n">>
  }

\* non_veg_indicators (diet_classifier.py:211-211)
non_veg_indicators ==
  <<
    <<"m","e","a","t">>, <<"c","h","i","c","k","e","n">>, <<"m","u","t","t","o","n">>,
    <<"f","i","s","h">>, <<"e","g","g">>, <<"p","r","a","w","n">>, <<"c","r","a","b">>
  >>

\* veg_indicators (diet_classifier.py:217-217)
veg_indicators ==
  <<
    <<"p","a","n","e","e","r">>, <<"c","h","e","e","s","e">>, <<"m","i","l","k">>,
    <<"d","a","i","r","y">>, <<"g","h","e","e">>, <<"b","u","t","t","e","r">>
  >>

\* pure_veg_indicators (diet_classifier.py:223-223)
pure_veg_indicators ==
  <<
    <<"v","e","g","a","n">>, <<"p","l","a","n","t","-","b","a","s","e","d">>,
    <<"p","u","r","e"," ","v","e","g">>, <<"n","o"," ","d","a","i","r","y">>,
    <<"d","a","i","r","y","-","f","r","e","e">>
  >>

-----------------------------------------------------------------------------
(* DietClassifier.                                                           *)

\* DietClassifier._contains_keywords
contains_keywords(text, keywords) ==
  LET cleaned_text == clean_text(text)
  IN  \E keyword \in keywords : search_word(lower(keyword), cleaned_text)

DietResult(t, c, r) == [diet_type |-> t, confidence |-> c, reason |-> r]

\* classify_by_ingredients with the confidences of the two plant-based outcomes swapped
classify_default_confident(ingredients, check_jain_restrictions) ==
  LET ingredient_text == ingredients
  IN  IF strip(ingredient_text) = <<>>
        THEN DietResult("Unknown", 0, "No ingredient information provided")
      ELSE IF contains_keywords(ingredient_text, non_veg_keywords)
        THEN DietResult("Non-Vegetarian", 95,
               "Contains meat, fish, eggs, or other non-vegetarian ingredients")
      ELSE IF contains_keywords(ingredient_text, vegetarian_keywords)
        THEN DietResult("Vegetarian", 85,
               "Contains dairy products but no non-vegetarian ingredients")
      ELSE IF check_jain_restrictions /\ contains_keywords(ingredient_text, jain_restricted)
        THEN DietResult("Vegetarian", 75,
               "Contains root vegetables (not suitable for Jain diet)")
      ELSE IF contains_keywords(ingredient_text, pure_veg_keywords)
        THEN DietResult("Pure Vegetarian", 65, "Contains only plant-based ingredients")
      ELSE DietResult("Pure Vegetarian", 80, "No animal-derived ingredients detected")

\* classify_by_ingredients that consults the Jain set whatever the flag says
classify_jain_always(ingredients, check_jain_restrictions) ==
  LET ingredient_text == ingredients
  IN  IF strip(ingredient_text) = <<>>
        THEN DietResult("Unknown", 0, "No ingredient information provided")
      ELSE IF contains_keywords(ingredient_text, non_veg_keywords)
        THEN DietResult("Non-Vegetarian", 95,
               "Contains meat, fish, eggs, or other non-vegetarian ingredients")
      ELSE IF contains_keywords(ingredient_text, vegetarian_keywords)
        THEN DietResult("Vegetarian", 85,
               "Contains dairy products but no non-vegetarian ingredients")
      ELSE IF contains_keywords(ingredient_text, jain_restricted)
        THEN DietResult("Vegetarian", 75,
               "Contains root vegetables (not suitable for Jain diet)")
      ELSE IF contains_keywords(ingredient_text, pure_veg_keywords)
        THEN DietResult("Pure Vegetarian", 80, "Contains only plant-based ingredients")
      ELSE DietResult("Pure Vegetarian", 65, "No animal-derived ingredients detected")

\* classify_by_ingredients that tests the Jain tier ahead of the dairy tier
classify_jain_before_dairy(ingredients, check_jain_restrictions) ==
  LET ingredient_text == ingredients
  IN  IF strip(ingredient_text) = <<>>
        THEN DietResult("Unknown", 0, "No ingredient information provided")
      ELSE IF contains_keywords(ingredient_text, non_veg_keywords)
        THEN DietResult("Non-Vegetarian", 95,
               "Contains meat, fish, eggs, or other non-vegetarian ingredients")
      ELSE IF check_jain_restrictions /\ contains_keywords(ingredient_text, jain_restricted)
        THEN DietResult("Vegetarian", 75,
               "Contains root vegetables (not suitable for Jain diet)")
      ELSE IF contains_keywords(ingredient_text, vegetarian_keywords)
        THEN DietResult("Vegetarian", 85,
               "Contains dairy products but no non-vegetarian ingredients")
      ELSE IF contains_keywords(ingredient_text, pure_veg_keywords)
        THEN DietResult("Pure Vegetarian", 80, "Contains only plant-based ingredients")
      ELSE DietResult("Pure Vegetarian", 65, "No animal-derived ingredients detected")

\* DietClassifier.classify_by_ingredients, for a str argument
classify_by_ingredients(ingredients, check_jain_restrictions) ==
  LET ingredient_text == ingredients
  IN  IF strip(ingredient_text) = <<>>
        THEN DietResult("Unknown", 0, "No ingredient information provided")
      ELSE IF contains_keywords(ingredient_text, non_veg_keywords)
        THEN DietResult("Non-Vegetarian", 95,
               "Contains meat, fish, eggs, or other non-vegetarian ingredients")
      ELSE IF contains_keywords(ingredient_text, vegetarian_keywords)
        THEN DietResult("Vegetarian", 85,
               "Contains dairy products but no non-vegetarian ingredients")
      ELSE IF check_jain_restrictions /\ contains_keywords(ingredient_text, jain_restricted)
        THEN DietResult("Vegetarian", 75,
               "Contains root vegetables (not suitable for Jain diet)")
      ELSE IF contains_keywords(ingredient_text, pure_veg_keywords)
        THEN DietResult("Pure Vegetarian", 80, "Contains only plant-based ingredients")
      ELSE DietResult("Pure Vegetarian", 65, "No animal-derived ingredients detected")

Min(a, b) == IF a <= b THEN a ELSE b
Max(a, b) == IF a >= b THEN a ELSE b

\* any(keyword in product_text for keyword in indicators)
any_indicator(indicators, product_text) ==
  \E i \in DOMAIN indicators : substring_in(indicators[i], product_text)

\* boost without the ceiling
boost_no_ceiling(result, indicators, product_text, label, ceiling, bonus) ==
  IF any_indicator(indicators, product_text) /\ result.diet_type = label
    THEN [result EXCEPT !.confidence = result.confidence + bonus]
    ELSE result

\* one confidence-boost step of classify_by_product_info
boost(result, indicators, product_text, label, ceiling, bonus) ==
  IF any_indicator(indicators, product_text) /\ result.diet_type = label
    THEN [result EXCEPT !.confidence = Min(ceiling, result.confidence + bonus)]
    ELSE result

\* DietClassifier.classify_by_product_info
classify_by_product_info(product_name, categories, ingredients, check_jain_restrictions) ==
  LET combined_text == product_name \o <<" ">> \o categories \o <<" ">> \o ingredients
      result0 == classify_by_ingredients(combined_text, check_jain_restrictions)
      product_text == lower(product_name \o <<" ">> \o categories)
      result1 == boost(result0, non_veg_indicators, product_text, "Non-Vegetarian", 98, 10)
      result2 == boost(result1, veg_indicators, product_text, "Vegetarian", 92, 10)
      result3 == boost(result2, pure_veg_indicators, product_text, "Pure Vegetarian", 95, 15)
  IN  result3

-----------------------------------------------------------------------------
(* HealthScoreModel.                                                         *)
(*                                                                           *)
(* A fitted RandomForestRegressor is [run, out, lean]: the training run that *)
(* fitted it and the raw values its predict returns.  A forest is piecewise  *)
(* constant; the forests here split once, on Protein: `out` is the value for *)
(* protein-rich rows and `lean` the value for the others.  Run 0 is the      *)
(* unfitted estimator of the constructor.  A StandardScaler is the run that  *)
(* fitted it, 0 when unfitted.  A file is [kind, run, out, lean] with kind   *)
(* "absent", "corrupt" (a truncated or unreadable pickle) or "pickle".       *)

\* HealthScoreModel.feature_columns
feature_columns ==
  <<"Calories", "Protein", "TotalFat", "Carbohydrate", "Sodium", "SaturatedFat", "Sugar",
    "Calcium", "Iron", "Potassium", "VitaminC", "VitaminE", "VitaminD">>

FeatureSet == {feature_columns[i] : i \in DOMAIN feature_columns}

\* dict.get(key, default)
get(d, key, default) == IF key \in DOMAIN d THEN d[key] ELSE default

\* a dict with no key (and a call without a dict argument)
EmptyFacts == [k \in {} |-> 0]

\* RandomForestRegressor(...) and StandardScaler() as __init__ builds them
UnfittedModel == [run |-> 0, out |-> 0, lean |-> 0]
UnfittedScaler == [run |-> 0]

AbsentFile == [kind |-> "absent", run |-> 0, out |-> 0, lean |-> 0]
CorruptFile == [kind |-> "corrupt", run |-> 0, out |-> 0, lean |-> 0]
ModelPickle(m) == [kind |-> "pickle", run |-> m.run, out |-> m.out, lean |-> m.lean]
ScalerPickle(s) == [kind |-> "pickle", run |-> s.run, out |-> 0, lean |-> 0]

\* a thread that is in no HealthScoreModel method
IdleTrainer == [at |-> "idle", run |-> 0, out |-> 0, lean |-> 0]
IdlePredictor == [at |-> "idle", arg |-> EmptyFacts, scaler |-> UnfittedScaler]

\* the record of one HealthScoreModel call: what it was given, what it returned or
\* raised, and the instance as the call found it
Call(op, raised, returned, score, arg) ==
  [op |-> op, raised |-> raised, returned |-> returned, score |-> score, arg |-> arg,
   pre |-> [model |-> model, scaler |-> scaler, is_trained |-> is_trained]]

NoModelCall ==
  [op |-> "__init__", raised |-> "", returned |-> "None", score |-> <<>>,
   arg |-> EmptyFacts,
   pre |-> [model |-> UnfittedModel, scaler |-> UnfittedScaler, is_trained |-> FALSE]]

Returned(returned, score) == [raised |-> "", returned |-> returned, score |-> score]
Raised(error) == [raised |-> error, returned |-> "", score |-> <<>>]

\* the raw prediction, not clamped
clip_none(x, lo, hi) == x

\* np.clip(x, lo, hi)
clip(x, lo, hi) == Max(lo, Min(hi, x))

\* _preprocess_data with an upper bound kept from the training frame
preprocess_train_bound(row) ==
  [c \in FeatureSet |-> Min(row[c], 1000)]

\* HealthScoreModel._preprocess_data on the one-row frame predict_health_score
\* builds: each column's median and 99th percentile are the row's own value
preprocess_data(row) ==
  LET features == [c \in FeatureSet |-> row[c]]
      median == features
      filled == [c \in FeatureSet |-> features[c]]
      q99 == [c \in FeatureSet |-> filled[c]]
  IN  [c \in FeatureSet |-> Min(filled[c], q99[c])]

\* a predict whose value depends on the call made before it
forest_predict_warm(forest, X) ==
  IF last.op = "predict_health_score" THEN forest.lean
  ELSE IF X["Protein"] > 15 THEN forest.out ELSE forest.lean

\* RandomForestRegressor.predict on one row
forest_predict(forest, X) == IF X["Protein"] > 15 THEN forest.out ELSE forest.lean

\* predict_health_score without its is_trained guard
predict_unguarded(nutrition_data) ==
  IF ~(FeatureSet \subseteq DOMAIN nutrition_data)
    THEN Raised("KeyError")
  ELSE IF scaler.run = 0 \/ model.run = 0
    THEN Raised("NotFittedError")
  ELSE Returned("score", <<clip(forest_predict(model, preprocess_data(nutrition_data)),
                                0, 100)>>)

\* predict_health_score selecting the columns as load_and_prepare_data does, the
\* 'Description' column included
predict_with_description(nutrition_data) ==
  IF ~is_trained
    THEN Raised("Model must be trained before making predictions")
  ELSE IF ~(FeatureSet \cup {"Description"} \subseteq DOMAIN nutrition_data)
    THEN Raised("KeyError")
  ELSE IF scaler.run = 0 \/ model.run = 0
    THEN Raised("NotFittedError")
  ELSE Returned("score", <<clip(forest_predict(model, preprocess_data(nutrition_data)),
                                0, 100)>>)

\* HealthScoreModel.predict_health_score, for a dict argument
predict_health_score(nutrition_data) ==
  IF ~is_trained
    THEN Raised("Model must be trained before making predictions")
  ELSE IF ~(FeatureSet \subseteq DOMAIN nutrition_data)
    THEN Raised("KeyError")
  ELSE IF scaler.run = 0 \/ model.run = 0
    THEN Raised("NotFittedError")
  ELSE LET X == preprocess_data(nutrition_data)
           raw == forest_predict(model, X)
           scores == clip(raw, 0, 100)
       IN  Returned("score", <<scores>>)

\* the points _calculate_health_score adds for each nutrient of a row
calories_points(calories) ==
  IF calories <= 100 THEN 15
  ELSE IF calories <= 200 THEN 10
  ELSE IF calories <= 300 THEN 5
  ELSE IF calories > 500 THEN -15
  ELSE 0

\* the protein bands as three independent `if` statements
protein_points_stacked(protein) ==
  (IF protein >= 20 THEN 15 ELSE 0) + (IF protein >= 10 THEN 10 ELSE 0)
  + (IF protein >= 5 THEN 5 ELSE 0)

protein_points(protein) ==
  IF protein >= 20 THEN 15
  ELSE IF protein >= 10 THEN 10
  ELSE IF protein >= 5 THEN 5
  ELSE 0

fat_points(fat) ==
  IF fat <= 3 THEN 10
  ELSE IF fat <= 10 THEN 5
  ELSE IF fat > 30 THEN -15
  ELSE 0

sat_fat_points(sat_fat) ==
  IF sat_fat <= 1 THEN 10
  ELSE IF sat_fat <= 5 THEN 5
  ELSE IF sat_fat > 10 THEN -15
  ELSE 0

sugar_points(sugar) ==
  IF sugar <= 2 THEN 10
  ELSE IF sugar <= 10 THEN 5
  ELSE IF sugar > 25 THEN -15
  ELSE 0

sodium_points(sodium) ==
  IF sodium <= 100 THEN 10
  ELSE IF sodium <= 300 THEN 5
  ELSE IF sodium > 1000 THEN -15
  ELSE 0

vitamin_c_points(vitamin_c) ==
  IF vitamin_c >= 50 THEN 10
  ELSE IF vitamin_c >= 10 THEN 5
  ELSE 0

calcium_points(calcium) ==
  IF calcium >= 200 THEN 8
  ELSE IF calcium >= 100 THEN 4
  ELSE 0

iron_points(iron) ==
  IF iron >= 5 THEN 8
  ELSE IF iron >= 2 THEN 4
  ELSE 0

potassium_points(potassium) ==
  IF potassium >= 300 THEN 8
  ELSE IF potassium >= 150 THEN 4
  ELSE 0

\* HealthScoreModel._calculate_health_score for one row of the frame
calculate_health_score(row) ==
  LET score == 50
               + calories_points(get(row, "Calories", 0))
               + protein_points(get(row, "Protein", 0))
               + fat_points(get(row, "TotalFat", 0))
               + sat_fat_points(get(row, "SaturatedFat", 0))
               + sugar_points(get(row, "Sugar", 0))
               + sodium_points(get(row, "Sodium", 0))
               + vitamin_c_points(get(row, "VitaminC", 0))
               + calcium_points(get(row, "Calcium", 0))
               + iron_points(get(row, "Iron", 0))
               + potassium_points(get(row, "Potassium", 0))
  IN  Max(0, Min(100, score))

\* get_health_rating with every threshold exclusive
get_health_rating_exclusive(score) ==
  IF score > 80 THEN "Excellent"
  ELSE IF score > 65 THEN "Good"
  ELSE IF score > 45 THEN "OK"
  ELSE "Poor"

\* HealthScoreModel.get_health_rating
get_health_rating(score) ==
  IF score >= 80 THEN "Excellent"
  ELSE IF score >= 65 THEN "Good"
  ELSE IF score >= 45 THEN "OK"
  ELSE "Poor"

\* train with `self.is_trained = True` ahead of the row count check
train_flag_first(dataset) ==
  IF ~dataset.exists
    THEN /\ last' = Call("train", "FileNotFoundError", "", <<>>, dataset)
         /\ UNCHANGED <<model, scaler, is_trained>>
  ELSE IF dataset.rows < 100
    THEN /\ is_trained' = TRUE
         /\ last' = Call("train", "", "None", <<>>, dataset)
         /\ UNCHANGED <<model, scaler>>
  ELSE /\ scaler' = [run |-> dataset.id]
       /\ model' = [run |-> dataset.id, out |-> dataset.out, lean |-> dataset.lean]
       /\ is_trained' = TRUE
       /\ last' = Call("train", "", "metrics", <<>>, dataset)

\* HealthScoreModel.train: the dataset at data_path has `rows` usable rows after
\* cleaning and, with the fixed seeds, determines the fitted scaler and forest
train(dataset) ==
  IF ~dataset.exists
    THEN /\ last' = Call("train", "FileNotFoundError", "", <<>>, dataset)
         /\ UNCHANGED <<model, scaler, is_trained>>
  ELSE IF dataset.rows < 100
    THEN /\ last' = Call("train", "", "None", <<>>, dataset)
         /\ UNCHANGED <<model, scaler, is_trained>>
  ELSE /\ scaler' = [run |-> dataset.id]
       /\ model' = [run |-> dataset.id, out |-> dataset.out, lean |-> dataset.lean]
       /\ is_trained' = TRUE
       /\ last' = Call("train", "", "metrics", <<>>, dataset)

\* the file a joblib.dump that fails leaves behind: the old one, or a truncated one
FailedDump(old, truncated) == IF truncated THEN CorruptFile ELSE old

\* HealthScoreModel.save_model; fails is the step that raises ("" for none)
save_model(fails, truncated) ==
  IF ~is_trained
    THEN /\ last' = Call("save_model", "Model must be trained before saving", "", <<>>,
                         EmptyFacts)
         /\ UNCHANGED <<model_file, scaler_file>>
  ELSE IF fails = "makedirs"
    THEN /\ last' = Call("save_model", "OSError", "", <<>>, EmptyFacts)
         /\ UNCHANGED <<model_file, scaler_file>>
  ELSE IF fails = "model"
    THEN /\ model_file' = FailedDump(model_file, truncated)
         /\ last' = Call("save_model", "OSError", "", <<>>, EmptyFacts)
         /\ UNCHANGED scaler_file
  ELSE IF fails = "scaler"
    THEN /\ model_file' = ModelPickle(model)
         /\ scaler_file' = FailedDump(scaler_file, truncated)
         /\ last' = Call("save_model", "OSError", "", <<>>, EmptyFacts)
  ELSE /\ model_file' = ModelPickle(model)
       /\ scaler_file' = ScalerPickle(scaler)
       /\ last' = Call("save_model", "", "None", <<>>, EmptyFacts)

\* joblib.load(path) succeeds on a readable pickle
Loads(file, read_fails) == file.kind = "pickle" /\ ~read_fails

\* HealthScoreModel.load_model; read_fails is the file whose read fails ("" for none)
load_model(read_fails) ==
  IF model_file.kind = "absent" \/ scaler_file.kind = "absent"
    THEN /\ last' = Call("load_model", "Model files not found. Train the model first.",
                         "", <<>>, EmptyFacts)
         /\ UNCHANGED <<model, scaler, is_trained>>
  ELSE IF ~Loads(model_file, read_fails = "model")
    THEN /\ last' = Call("load_model", "UnpicklingError", "", <<>>, EmptyFacts)
         /\ UNCHANGED <<model, scaler, is_trained>>
  ELSE IF ~Loads(scaler_file, read_fails = "scaler")
    THEN /\ model' = [run |-> model_file.run, out |-> model_file.out,
                    lean |-> model_file.lean]
         /\ last' = Call("load_model", "UnpicklingError", "", <<>>, EmptyFacts)
         /\ UNCHANGED <<scaler, is_trained>>
  ELSE /\ model' = [run |-> model_file.run, out |-> model_file.out,
                    lean |-> model_file.lean]
       /\ scaler' = [run |-> scaler_file.run]
       /\ is_trained' = TRUE
       /\ last' = Call("load_model", "", "None", <<>>, EmptyFacts)

-----------------------------------------------------------------------------
(* NutriAnalyzer.  Suggestion strings are written without their emoji.       *)

\* the defaults of NutriAnalyzer._complete_nutrition_data
defaults ==
  [Calories |-> 200, Protein |-> 8, TotalFat |-> 5, Carbohydrate |-> 25, Sodium |-> 300,
   SaturatedFat |-> 2, Sugar |-> 5, Calcium |-> 50, Iron |-> 2, Potassium |-> 200,
   VitaminC |-> 5, VitaminE |-> 1, VitaminD |-> 0]

\* completion with the update the wrong way round: the defaults overwrite the input
complete_defaults_win(nutrition_facts) ==
  [k \in DOMAIN defaults \cup DOMAIN nutrition_facts |->
     IF k \in DOMAIN defaults THEN defaults[k] ELSE nutrition_facts[k]]

\* NutriAnalyzer._complete_nutrition_data: defaults.copy() then update(nutrition_facts)
complete_nutrition_data(nutrition_facts) ==
  [k \in DOMAIN defaults \cup DOMAIN nutrition_facts |->
     IF k \in DOMAIN nutrition_facts THEN nutrition_facts[k] ELSE defaults[k]]

\* the diet-specific suggestions of _generate_suggestions
diet_suggestions(diet_type) ==
  IF diet_type = "Vegan"
    THEN <<"Great choice for plant-based eating!",
           "Consider pairing with protein-rich legumes or nuts">>
  ELSE IF diet_type = "Vegetarian"
    THEN <<"Contains dairy/eggs - good source of complete proteins",
           "Add more vegetables for balanced nutrition">>
  ELSE IF diet_type = "Non-Vegetarian"
    THEN <<"Contains animal products - ensure portion control",
           "Balance with plant-based sides for fiber">>
  ELSE <<>>

\* the health score-based suggestions of _generate_suggestions; score is <<>> for None
score_suggestions(score) ==
  IF score = <<>> THEN <<>>
  ELSE IF score[1] >= 80 THEN <<"Excellent nutritional profile!">>
  ELSE IF score[1] >= 65 THEN <<"Good nutritional choice">>
  ELSE IF score[1] >= 45 THEN <<"Moderate nutrition - consume in moderation">>
  ELSE <<"Consider healthier alternatives">>

\* one `if nutrition_data.get(key, 0) > threshold: suggestions.append(text)`
nutrient_rule(nutrition_data, key, threshold, text) ==
  IF get(nutrition_data, key, 0) > threshold THEN <<text>> ELSE <<>>

\* the specific nutrient suggestions of _generate_suggestions
nutrient_suggestions(nutrition_data) ==
  IF DOMAIN nutrition_data = {} THEN <<>>
  ELSE nutrient_rule(nutrition_data, "Sugar", 15, "High in sugar - limit portion size")
    \o nutrient_rule(nutrition_data, "Sodium", 500,
                     "High sodium content - drink plenty of water")
    \o nutrient_rule(nutrition_data, "SaturatedFat", 5,
                     "High saturated fat - choose lean alternatives")
    \o nutrient_rule(nutrition_data, "Protein", 15, "Good protein source!")
    \o nutrient_rule(nutrition_data, "VitaminC", 30,
                     "Rich in Vitamin C - great for immunity!")
    \o nutrient_rule(nutrition_data, "Calcium", 150,
                     "Good source of calcium for bone health!")

\* suggestions[-5:]
last5(suggestions) ==
  SubSeq(suggestions, Max(1, Len(suggestions) - 4), Len(suggestions))

\* suggestions[:5]
first5(suggestions) == SubSeq(suggestions, 1, Min(5, Len(suggestions)))

\* NutriAnalyzer._generate_suggestions
generate_suggestions(diet_classification, health_analysis) ==
  LET diet_type == diet_classification.diet_type
      score == health_analysis.score
      nutrition_data == health_analysis.nutrition_data
  IN  first5(diet_suggestions(diet_type) \o score_suggestions(score)
             \o nutrient_suggestions(nutrition_data))

\* diet_step with an except clause that drops the error text
diet_step_no_text(classified, fault) ==
  IF fault # ""
    THEN DietResult("Unknown", 0, "Classification error")
    ELSE classified

\* the diet classification step of analyze_product; classified is what
\* classify_by_product_info(product_name=..., ingredients=...) returns when it
\* returns, fault the exception it raises instead ("" for none)
diet_step(classified, fault) ==
  IF fault # ""
    THEN DietResult("Unknown", 0, "Classification error: " \o fault)
    ELSE classified

\* health_step with `if nutrition_facts:` for its condition
health_step_any_state(nutrition_facts, fault) ==
  IF DOMAIN nutrition_facts # {}
    THEN LET complete_nutrition == complete_nutrition_data(nutrition_facts)
             outcome == IF fault = "predict"
                          THEN Raised("ValueError")
                          ELSE predict_health_score(complete_nutrition)
             error == IF fault = "complete" THEN "TypeError"
                      ELSE IF outcome.raised # "" THEN outcome.raised
                      ELSE IF fault = "rating" THEN "TypeError"
                      ELSE ""
         IN  [called |-> fault # "complete",
              arg |-> complete_nutrition,
              outcome |-> outcome,
              health_analysis |->
                IF error # ""
                  THEN [score |-> <<>>, rating |-> "Unknown", nutrition_data |-> EmptyFacts,
                        error |-> error]
                  ELSE [score |-> outcome.score,
                        rating |-> get_health_rating(outcome.score[1]),
                        nutrition_data |-> complete_nutrition, error |-> ""]]
    ELSE [called |-> FALSE,
          arg |-> EmptyFacts,
          outcome |-> Raised(""),
          health_analysis |->
            [score |-> <<>>, rating |-> "Insufficient data",
             nutrition_data |-> nutrition_facts, error |-> ""]]

\* the health score step of analyze_product; fault is the call that raises: "complete",
\* "predict" or "rating" ("" for none).  A missing 'nutrition_data' or 'error' key is
\* the empty dict or the empty string; `called` tells whether predict_health_score
\* was called and `outcome` what it returned or raised.
health_step(nutrition_facts, fault) ==
  IF DOMAIN nutrition_facts # {} /\ is_trained
    THEN LET complete_nutrition == complete_nutrition_data(nutrition_facts)
             outcome == IF fault = "predict"
                          THEN Raised("ValueError")
                          ELSE predict_health_score(complete_nutrition)
             error == IF fault = "complete" THEN "TypeError"
                      ELSE IF outcome.raised # "" THEN outcome.raised
                      ELSE IF fault = "rating" THEN "TypeError"
                      ELSE ""
         IN  [called |-> fault # "complete",
              arg |-> complete_nutrition,
              outcome |-> outcome,
              health_analysis |->
                IF error # ""
                  THEN [score |-> <<>>, rating |-> "Unknown", nutrition_data |-> EmptyFacts,
                        error |-> error]
                  ELSE [score |-> outcome.score,
                        rating |-> get_health_rating(outcome.score[1]),
                        nutrition_data |-> complete_nutrition, error |-> ""]]
    ELSE [called |-> FALSE,
          arg |-> EmptyFacts,
          outcome |-> Raised(""),
          health_analysis |->
            [score |-> <<>>, rating |-> "Insufficient data",
             nutrition_data |-> nutrition_facts, error |-> ""]]

\* NutriAnalyzer.analyze_product: the result it returns, with the arguments and the
\* injected faults of the call
analyze_product(product_name, ingredients, nutrition_facts, faults, classified) ==
  LET diet_result == diet_step(classified, faults.diet)
      health == health_step(nutrition_facts, faults.health)
  IN  [called |-> TRUE,
       raised |-> "",
       args |-> [product_name |-> product_name, ingredients |-> ingredients,
                 nutrition_facts |-> nutrition_facts],
       faults |-> faults,
       product_name |-> product_name,
       analysis_status |-> "success",
       diet_classification |-> diet_result,
       health_analysis |-> health.health_analysis,
       suggestions |-> generate_suggestions(diet_result, health.health_analysis)]

NoAnalysis ==
  [called |-> FALSE,
   raised |-> "",
   args |-> [product_name |-> <<>>, ingredients |-> <<>>, nutrition_facts |-> EmptyFacts],
   faults |-> [diet |-> "", health |-> ""],
   product_name |-> <<>>,
   analysis_status |-> "",
   diet_classification |-> DietResult("Unknown", 0, ""),
   health_analysis |-> [score |-> <<>>, rating |-> "", nutrition_data |-> EmptyFacts,
                        error |-> ""],
   suggestions |-> <<>>]

-----------------------------------------------------------------------------
(* NutriAnalyzer.compare_products.                                           *)

\* the keyword parameters of analyze_product
analyze_params == {"product_name", "ingredients", "nutrition_facts"}

NoFaults == [diet |-> "", health |-> ""]

\* the record of one compare_products call: its argument, the injected faults, the
\* exception that left it ("" for none), the number of analyze_product calls it made
\* and the dict it returned: 'error', or 'products' and 'winner' (<<>> for None)
Comparison(products, faults, raised, analysed, error, analyses, winner) ==
  [called |-> TRUE, args |-> products, faults |-> faults, raised |-> raised,
   analysed |-> analysed, error |-> error, products |-> analyses, winner |-> winner]

NoComparison ==
  [called |-> FALSE, args |-> <<>>, faults |-> <<>>, raised |-> "", analysed |-> 0,
   error |-> "", products |-> <<>>, winner |-> <<>>]

\* a guard that lets a single product through
too_few_one(products) == Len(products) < 1

\* len(products) < 2
too_few(products) == Len(products) < 2

\* self.analyze_product(**product) for a product with the parameters' names
analyze_entry(product, faults, classified) ==
  LET product_name == get(product, "product_name", <<>>)
      ingredients == get(product, "ingredients", <<>>)
      nutrition_facts == get(product, "nutrition_facts", EmptyFacts)
  IN  analyze_product(product_name, ingredients, nutrition_facts, faults,
                      classified[<<product_name, ingredients>>])

\* the present scores of the analyses, by index
valid_scores(analyses) ==
  [i \in {j \in DOMAIN analyses : analyses[j].health_analysis.score # <<>>} |->
     analyses[i].health_analysis.score[1]]

\* max(valid_scores), then next(i for i, p in enumerate(...) if score == best_score)
winner_idx(analyses) ==
  LET scores == valid_scores(analyses)
      best_score == CHOOSE x \in {scores[i] : i \in DOMAIN scores} :
                      \A i \in DOMAIN scores : scores[i] <= x
  IN  CHOOSE i \in DOMAIN scores :
        /\ scores[i] = best_score
        /\ \A j \in DOMAIN scores : scores[j] = best_score => i <= j

\* NutriAnalyzer.compare_products; faults[i] are the exceptions injected into the
\* analysis of products[i], classified what the classifier returns for each product
compare_products(products, faults, classified) ==
  IF too_few(products)
    THEN Comparison(products, faults, "", 0, "Need at least 2 products to compare", <<>>, <<>>)
  ELSE LET rejected == {i \in DOMAIN products : ~(DOMAIN products[i] \subseteq analyze_params)}
       IN  IF rejected # {}
             THEN Comparison(products, faults, "TypeError",
                             (CHOOSE i \in rejected : \A j \in rejected : i <= j) - 1,
                             "", <<>>, <<>>)
             ELSE LET analyses == [i \in DOMAIN products |->
                                     analyze_entry(products[i], faults[i], classified)]
                  IN  Comparison(products, faults, "", Len(products), "", analyses,
                                 IF DOMAIN valid_scores(analyses) # {}
                                   THEN <<analyses[winner_idx(analyses)]>>
                                   ELSE <<>>)

-----------------------------------------------------------------------------
(* OCRProcessor.extract_nutrition_values.                                    *)
(*                                                                           *)
(* Every pattern of the method is a prefix, the captured number              *)
(* (\d+(?:\.\d+)?) and a suffix.  Prefix and suffix are sequences of         *)
(* elements: Lit(s) the literal s, Opt(c) the character c or nothing,       *)
(* Spaces \s+, MaybeSpaces \s*, Sep the class [:\s]*, Alt(S) one of the      *)
(* literals of S.  An amount is an integer number of millionths, so that     *)
(* 0.15 is 150000.                                                           *)

\* the elements of a pattern
Lit(s) == <<"lit", s>>
Opt(c) == <<"opt", c>>
Alt(S) == <<"alt", S>>
Spaces == <<"s+">>
MaybeSpaces == <<"s*">>
Sep == <<"sep">>
Pattern(prefix, suffix) == [prefix |-> prefix, suffix |-> suffix]

\* the patterns of each nutrient, in their order
patterns ==
  ("Calories" :>
       << Pattern(<<Lit(<<"c","a","l","o","r","i","e">>), Opt("s"), Sep>>, <<>>),
          Pattern(<<Lit(<<"e","n","e","r","g","y">>), Sep>>,
                <<MaybeSpaces, Lit(<<"k","c","a","l">>)>>),
          Pattern(<<>>, <<MaybeSpaces, Lit(<<"k","c","a","l">>)>>) >>)
  @@ ("TotalFat" :>
       << Pattern(<<Lit(<<"t","o","t","a","l">>), Spaces, Lit(<<"f","a","t">>), Sep>>,
                <<>>),
          Pattern(<<Lit(<<"f","a","t">>), Sep>>, <<MaybeSpaces, Lit(<<"g">>)>>) >>)
  @@ ("SaturatedFat" :>
       << Pattern(<<Lit(<<"s","a","t","u","r","a","t","e","d">>), Spaces, Lit(<<"f","a","t">>), Sep>>,
                <<>>),
          Pattern(<<Lit(<<"s","a","t">>), Opt("."), Spaces, Lit(<<"f","a","t">>), Sep>>,
                <<>>) >>)
  @@ ("Sugar" :>
       << Pattern(<<Lit(<<"s","u","g","a","r">>), Opt("s"), Sep>>,
                <<MaybeSpaces, Lit(<<"g">>)>>),
          Pattern(<<Lit(<<"t","o","t","a","l">>), Spaces, Lit(<<"s","u","g","a","r">>), Opt("s"), Sep>>,
                <<>>) >>)
  @@ ("Protein" :>
       << Pattern(<<Lit(<<"p","r","o","t","e","i","n">>), Sep>>,
                <<MaybeSpaces, Lit(<<"g">>)>>) >>)
  @@ ("Sodium" :>
       << Pattern(<<Lit(<<"s","o","d","i","u","m">>), Sep>>,
                <<MaybeSpaces, Alt({<<"m","g">>, <<"g">>})>>),
          Pattern(<<Lit(<<"s","a","l","t">>), Sep>>, <<MaybeSpaces, Lit(<<"g">>)>>) >>)
  @@ ("Carbohydrate" :>
       << Pattern(<<Lit(<<"c","a","r","b","o","h","y","d","r","a","t","e">>), Opt("s"), Sep>>,
                <<MaybeSpaces, Lit(<<"g">>)>>),
          Pattern(<<Lit(<<"t","o","t","a","l">>), Spaces, Lit(<<"c","a","r","b">>), Opt("s"), Sep>>,
                <<>>) >>)
  @@ ("Calcium" :>
       << Pattern(<<Lit(<<"c","a","l","c","i","u","m">>), Sep>>,
                <<MaybeSpaces, Alt({<<"m","g">>, <<"g">>})>>) >>)
  @@ ("Iron" :>
       << Pattern(<<Lit(<<"i","r","o","n">>), Sep>>,
                <<MaybeSpaces, Alt({<<"m","g">>, <<"g">>})>>) >>)
  @@ ("VitaminC" :>
       << Pattern(<<Lit(<<"v","i","t","a","m","i","n">>), Spaces, Lit(<<"c">>), Sep>>,
                <<MaybeSpaces, Alt({<<"m","g">>, <<"g">>})>>),
          Pattern(<<Lit(<<"a","s","c","o","r","b","i","c">>), Spaces, Lit(<<"a","c","i","d">>), Sep>>,
                <<>>) >>)

\* the number of digits that stand in the text from position p on
RECURSIVE DigitRun(_, _)
DigitRun(text, p) ==
  IF p <= Len(text) /\ text[p] \in DIGITS THEN 1 + DigitRun(text, p + 1) ELSE 0

\* the positions up to which the characters from position i on all lie in the class
RunEnds(text, i, class, least) ==
  {j \in (i + least)..(Len(text) + 1) : \A m \in i..(j - 1) : text[m] \in class}

\* the positions at which a match of the elements k.. of a pattern part, begun at
\* position i, may end (the position of the next character)
RECURSIVE MatchEnds(_, _, _, _)
MatchEnds(part, k, text, i) ==
  IF k > Len(part) THEN {i}
  ELSE LET e == part[k]
           rest(j) == MatchEnds(part, k + 1, text, j)
       IN  IF e[1] = "lit"
             THEN IF OccursAt(e[2], text, i) THEN rest(i + Len(e[2])) ELSE {}
           ELSE IF e[1] = "opt"
             THEN rest(i) \cup (IF i <= Len(text) /\ text[i] = e[2] THEN rest(i + 1) ELSE {})
           ELSE IF e[1] = "s+"
             THEN UNION {rest(j) : j \in RunEnds(text, i, SpaceChars, 1)}
           ELSE IF e[1] = "s*"
             THEN UNION {rest(j) : j \in RunEnds(text, i, SpaceChars, 0)}
           ELSE IF e[1] = "sep"
             THEN UNION {rest(j) : j \in RunEnds(text, i, SpaceChars \cup {":"}, 0)}
           ELSE UNION {IF OccursAt(s, text, i) THEN rest(i + Len(s)) ELSE {} : s \in e[2]}

\* match.group(1) of a match of the pattern that begins at position i, <<>> when
\* there is none: the number takes as many digits as the suffix allows, the
\* fraction included when it can be
match_at(pattern, text, i) ==
  LET starts == {p \in MatchEnds(pattern.prefix, 1, text, i) : DigitRun(text, p) > 0}
  IN  IF starts = {} THEN <<>>
      ELSE LET p == CHOOSE s \in starts : \A t \in starts : t <= s
               digits == DigitRun(text, p)
               fraction == IF p + digits <= Len(text) /\ text[p + digits] = "."
                             THEN DigitRun(text, p + digits + 1)
                             ELSE 0
               \* <<digits taken, fraction digits taken>> and the end of each number
               numbers == {<<digits, f>> : f \in 0..fraction}
                          \cup {<<d, 0>> : d \in 1..digits}
               end(n) == p + n[1] + (IF n[2] > 0 THEN 1 + n[2] ELSE 0)
               good == {n \in numbers : MatchEnds(pattern.suffix, 1, text, end(n)) # {}}
           IN  IF good = {} THEN <<>>
               ELSE LET n == CHOOSE c \in good :
                               \A d \in good : c[1] > d[1] \/ (c[1] = d[1] /\ c[2] >= d[2])
                    IN  <<SubSeq(text, p, end(n) - 1)>>

\* re.search(pattern, text): group(1) of the leftmost match, <<>> for None
re_search(pattern, text) ==
  LET found == {i \in 1..Len(text) : match_at(pattern, text, i) # <<>>}
  IN  IF found = {} THEN <<>>
      ELSE match_at(pattern, text, CHOOSE i \in found : \A j \in found : i <= j)

DigitValue ==
  ("0" :> 0) @@ ("1" :> 1) @@ ("2" :> 2) @@ ("3" :> 3) @@ ("4" :> 4) @@ ("5" :> 5)
  @@ ("6" :> 6) @@ ("7" :> 7) @@ ("8" :> 8) @@ ("9" :> 9)

\* int(digits)
RECURSIVE IntOf(_)
IntOf(digits) ==
  IF digits = <<>> THEN 0
  ELSE 10 * IntOf(SubSeq(digits, 1, Len(digits) - 1)) + DigitValue[digits[Len(digits)]]

RECURSIVE Pow10(_)
Pow10(n) == IF n = 0 THEN 1 ELSE 10 * Pow10(n - 1)

\* float(number) for a number of the form \d+(?:\.\d+)? with at most 6 decimals, in
\* millionths
float(number) ==
  LET dots == {i \in DOMAIN number : number[i] = "."}
  IN  IF dots = {} THEN IntOf(number) * Pow10(6)
      ELSE LET dot == CHOOSE i \in dots : TRUE
               decimals == SubSeq(number, dot + 1, Len(number))
           IN  IntOf(SubSeq(number, 1, dot - 1)) * Pow10(6)
               + IntOf(decimals) * Pow10(6 - Len(decimals))

\* `if nutrient == 'sodium_100g' and 'mg' in text_lower: value = value / 1000`
to_grams(nutrient, value, text_lower) ==
  IF nutrient = "sodium_100g" /\ substring_in(<<"m","g">>, text_lower)
    THEN value \div 1000
    ELSE value

\* OCRProcessor.extract_nutrition_values: for each nutrient the number of its first
\* pattern that matches, as a dict
extract_nutrition_values(text) ==
  LET text_lower == lower(text)
      groups == [nutrient \in DOMAIN patterns |->
                   [k \in DOMAIN patterns[nutrient] |->
                      re_search(patterns[nutrient][k], text_lower)]]
      matching(nutrient) == {k \in DOMAIN groups[nutrient] : groups[nutrient][k] # <<>>}
      first(nutrient) == CHOOSE k \in matching(nutrient) : \A j \in matching(nutrient) : k <= j
  IN  [nutrient \in {n \in DOMAIN patterns : matching(n) # {}} |->
         to_grams(nutrient, float(groups[nutrient][first(nutrient)][1]), text_lower)]

\* the record of one extract_nutrition_values call
Extraction(text) == [called |-> TRUE, text |-> text, nutrition_data |-> extract_nutrition_values(text)]

NoExtraction == [called |-> FALSE, text |-> <<>>, nutrition_data |-> EmptyFacts]

-----------------------------------------------------------------------------
(* RateLimiter.                                                              *)

NoRequests == [cid \in {} |-> <<>>]

\* [t for t in times if t > now - self.window_seconds]
recent(times, window, t_now) == SelectSeq(times, LAMBDA t : t > t_now - window)

\* the same call with the limit tested by `>` in place of `>=`
is_allowed_one_more(limit, window, recorded, client_id, t_now) ==
  LET cleaned == [cid \in {c \in DOMAIN recorded : recent(recorded[c], window, t_now) # <<>>}
                    |-> recorded[cid]]
      recent_requests == recent(get(cleaned, client_id, <<>>), window, t_now)
  IN  IF Len(recent_requests) > limit
        THEN [allowed |-> FALSE, requests |-> cleaned]
        ELSE [allowed |-> TRUE,
              requests |-> [cid \in DOMAIN cleaned \cup {client_id} |->
                              IF cid = client_id THEN Append(recent_requests, t_now)
                                                 ELSE cleaned[cid]]]

\* RateLimiter.is_allowed(client_id) at clock reading t_now, on a limiter with the
\* given max_requests, window_seconds and requests: the answer and the requests
\* it leaves
is_allowed(limit, window, recorded, client_id, t_now) ==
  LET \* Clean old entries
      cleaned == [cid \in {c \in DOMAIN recorded : recent(recorded[c], window, t_now) # <<>>}
                    |-> recorded[cid]]
      \* Get client's recent requests
      recent_requests == recent(get(cleaned, client_id, <<>>), window, t_now)
  IN  IF Len(recent_requests) >= limit
        THEN [allowed |-> FALSE, requests |-> cleaned]
        ELSE [allowed |-> TRUE,
              requests |-> [cid \in DOMAIN cleaned \cup {client_id} |->
                              IF cid = client_id THEN Append(recent_requests, t_now)
                                                 ELSE cleaned[cid]]]

-----------------------------------------------------------------------------
(* Inputs of the classifier: every concatenation of at most MaxAtoms atoms,  *)
(* and the concrete texts of the repository's tests and documentation.       *)

MaxAtoms == 3

Atoms ==
  << <<"e","g","g">>, <<"s","a","l","t">>, <<"r","i","c","e">>, <<"m","i","l","k">>,
     <<"o","n","i","o","n">>, <<","," ">> >>

RECURSIVE Join(_)
Join(ixs) == IF ixs = <<>> THEN <<>> ELSE Atoms[Head(ixs)] \o Join(Tail(ixs))

AtomTexts == {Join(ixs) : ixs \in UNION {[1..k -> DOMAIN Atoms] : k \in 0..MaxAtoms}}

TxtChickenBreast ==
  <<"c","h","i","c","k","e","n"," ","b","r","e","a","s","t",","," ","s","a","l","t",","," ",
    "p","e","p","p","e","r">>
TxtEggplantRice == <<"e","g","g","p","l","a","n","t",","," ","r","i","c","e">>
TxtEggRice == <<"e","g","g",","," ","r","i","c","e">>
TxtQuinoaBowl ==
  <<"q","u","i","n","o","a",","," ","b","l","a","c","k"," ","b","e","a","n","s",","," ",
    "v","e","g","e","t","a","b","l","e","s",","," ","t","a","h","i","n","i">>
TxtCheese ==
  <<"b","r","o","c","c","o","l","i",","," ","c","h","e","e","s","e",","," ","m","i","l","k">>
TxtCysteine == <<"s","a","l","t",","," ","L","-","C","y","s","t","e","i","n","e">>
TxtFishOil == <<"F","I","S","H","\n","O","I","L">>
TxtAlooGobi ==
  <<"p","o","t","a","t","o",","," ","c","a","u","l","i","f","l","o","w","e","r",","," ",
    "o","n","i","o","n">>

TxtPaneer ==
  <<"p","a","n","e","e","r",","," ","t","o","m","a","t","o",","," ","c","r","e","a","m",
    ","," ","b","u","t","t","e","r",","," ","o","n","i","o","n",","," ","g","a","r","l",
    "i","c",","," ","s","p","i","c","e","s">>

TxtEggWhite == <<"E","g","g","-","W","h","i","t","e"," ","p","o","w","d","e","r">>
TxtSpaces == <<" ","\n"," ">>

SampleTexts ==
  {TxtChickenBreast, TxtEggplantRice, TxtEggRice, TxtQuinoaBowl, TxtCheese, TxtCysteine,
   TxtFishOil, TxtAlooGobi, TxtEggWhite, TxtSpaces, TxtPaneer}

IngredientTexts == AtomTexts \cup SampleTexts

NameEggplant == <<"E","g","g","p","l","a","n","t">>
NameVegan == <<"v","e","g","a","n">>

CatDairy == <<"d","a","i","r","y">>
\* <<product_name, categories>> of the classify_by_product_info calls
ProductInfos == {<< <<>>, <<>> >>, <<NameEggplant, <<>> >>, <<NameVegan, <<>> >>,
                 << <<>>, CatDairy>>}

NoCall ==
  [fn |-> "none", product_name |-> <<>>, categories |-> <<>>, ingredients |-> <<>>,
   jain |-> FALSE, done |-> FALSE, result |-> DietResult("Unknown", 0, "")]

\* the calls of the classifier that are checked: function and arguments
DietCalls ==
  {[NoCall EXCEPT !.fn = "classify_by_ingredients", !.ingredients = text, !.jain = jain] :
     text \in IngredientTexts, jain \in BOOLEAN}
  \cup
  {[NoCall EXCEPT !.fn = "classify_by_product_info", !.product_name = info[1],
      !.categories = info[2], !.ingredients = text, !.jain = jain] :
     info \in ProductInfos, text \in IngredientTexts, jain \in BOOLEAN}

\* a call of DietClassifier.classify_by_ingredients
ClassifyByIngredients ==
  /\ dcall.fn = "classify_by_ingredients"
  /\ ~dcall.done
  /\ dcall' = [dcall EXCEPT !.done = TRUE,
                 !.result = classify_by_ingredients(dcall.ingredients, dcall.jain)]
  /\ UNCHANGED <<model, scaler, is_trained, model_file, scaler_file, last, results, pc, comparison, helpers>>

\* a call of DietClassifier.classify_by_product_info
ClassifyByProductInfo ==
  /\ dcall.fn = "classify_by_product_info"
  /\ ~dcall.done
  /\ dcall' = [dcall EXCEPT !.done = TRUE,
                 !.result = classify_by_product_info(dcall.product_name, dcall.categories,
                                                     dcall.ingredients, dcall.jain)]
  /\ UNCHANGED <<model, scaler, is_trained, model_file, scaler_file, last, results, pc, comparison, helpers>>

\* HealthScoreModel.__init__, with nothing analysed yet
Constructed ==
  /\ model = UnfittedModel
  /\ scaler = UnfittedScaler
  /\ is_trained = FALSE
  /\ last = NoModelCall
  /\ results = NoAnalysis
  /\ comparison = NoComparison
  /\ pc = "new"
  /\ ocr = NoExtraction
  /\ max_requests = 100
  /\ window_seconds = 3600
  /\ requests = NoRequests
  /\ calls = <<>>
  /\ now = 0
  /\ trainer = IdleTrainer
  /\ predictor = IdlePredictor

NoFiles == model_file = AbsentFile /\ scaler_file = AbsentFile

InitDiet == dcall \in DietCalls /\ Constructed /\ NoFiles

NextDiet == ClassifyByIngredients \/ ClassifyByProductInfo

SpecDiet == InitDiet /\ [][NextDiet]_vars

-----------------------------------------------------------------------------
(* The HealthScoreModel life cycle: train, predict, save and load in any     *)
(* order, with file writes and reads that may fail.                          *)

NumDatasets == 3

\* the reference datasets: dataset i has 98 + i usable rows, so the first falls short
\* of the minimum and the second meets it exactly
Datasets ==
  {[id |-> i, exists |-> TRUE, rows |-> 98 + i, out |-> (37 * i) % 101,
    lean |-> (53 * i) % 101] :
     i \in 1..NumDatasets}
  \cup {[id |-> 0, exists |-> FALSE, rows |-> 0, out |-> 0, lean |-> 0]}

\* test_health_model's spinach, rounded to integers
VecSpinach ==
  [Calories |-> 23, Protein |-> 3, TotalFat |-> 0, Carbohydrate |-> 4, Sodium |-> 79,
   SaturatedFat |-> 0, Sugar |-> 0, Calcium |-> 99, Iron |-> 3, Potassium |-> 558,
   VitaminC |-> 28, VitaminE |-> 2, VitaminD |-> 0]

\* a vector far above any reference food
VecOutlier == [c \in FeatureSet |-> 1000000]

\* the documented chicken breast, sparse
VecChicken == [Calories |-> 165, Protein |-> 31, TotalFat |-> 4, Sodium |-> 74]

PredictInputs == {VecSpinach, VecOutlier, VecChicken}

Train ==
  /\ \E dataset \in Datasets : train(dataset)
  /\ UNCHANGED <<dcall, model_file, scaler_file, results, pc, comparison, helpers>>

Predict ==
  /\ \E nutrition_data \in PredictInputs :
       LET outcome == predict_health_score(nutrition_data)
       IN  last' = Call("predict_health_score", outcome.raised, outcome.returned,
                        outcome.score, nutrition_data)
  /\ UNCHANGED <<dcall, model, scaler, is_trained, model_file, scaler_file, results, pc, comparison, helpers>>

SaveModel ==
  /\ \E fails \in {"", "makedirs", "model", "scaler"}, truncated \in BOOLEAN :
       save_model(fails, truncated)
  /\ UNCHANGED <<dcall, model, scaler, is_trained, results, pc, comparison, helpers>>

LoadModel ==
  /\ \E read_fails \in {"", "model", "scaler"} : load_model(read_fails)
  /\ UNCHANGED <<dcall, model_file, scaler_file, results, pc, comparison, helpers>>

\* a new process constructs a new HealthScoreModel; the files stay
Construct ==
  /\ model' = UnfittedModel
  /\ scaler' = UnfittedScaler
  /\ is_trained' = FALSE
  /\ last' = NoModelCall
  /\ results' = NoAnalysis
  /\ UNCHANGED <<dcall, model_file, scaler_file, pc, comparison, helpers>>

\* NutriAnalyzer.analyze_product of a product without a name or ingredients, on an
\* analyzer whose health_model is this instance
AnalyzeWithModel ==
  /\ \E nutrition_facts \in PredictInputs :
       LET health == health_step(nutrition_facts, "")
       IN  /\ results' = analyze_product(<<>>, <<>>, nutrition_facts, NoFaults,
                                         classify_by_product_info(<<>>, <<>>, <<>>, FALSE))
           /\ last' = IF health.called
                        THEN Call("predict_health_score", health.outcome.raised,
                                  health.outcome.returned, health.outcome.score,
                                  health.arg)
                        ELSE last
  /\ UNCHANGED <<dcall, model, scaler, is_trained, model_file, scaler_file, pc, comparison, helpers>>

InitModel == dcall = NoCall /\ Constructed /\ NoFiles

NextModel == Train \/ Predict \/ SaveModel \/ LoadModel \/ Construct \/ AnalyzeWithModel

SpecModel == InitModel /\ [][NextModel]_vars

-----------------------------------------------------------------------------
(* The NutriAnalyzer: the constructor loads whatever the models directory    *)
(* holds, then one product is analysed.                                      *)

\* the raw values of the shipped forests: both sides of every rating band and of
\* the clamp
RawOutputs == {-1, 44, 45, 64, 65, 79, 80, 101}

\* the raw values of the shipped forests for the rows that are not protein-rich
LeanOutputs == {50}

ShippedModel(out, lean) == [kind |-> "pickle", run |-> 1, out |-> out, lean |-> lean]
ShippedScaler == [kind |-> "pickle", run |-> 1, out |-> 0, lean |-> 0]

\* <<model file, scaler file>> as the constructor may find them
DiskStates ==
  {<<AbsentFile, AbsentFile>>, <<ShippedModel(80, 50), CorruptFile>>}
  \cup {<<ShippedModel(out, lean), ShippedScaler>> : out \in RawOutputs, lean \in LeanOutputs}

NameTestSnack == <<"T","e","s","t"," ","S","n","a","c","k">>

\* <<product_name, ingredients>>
Products ==
  {<< <<>>, <<>> >>, <<NameTestSnack, <<>> >>, << <<>>, TxtChickenBreast>>,
   << <<>>, TxtCheese>>, << <<>>, TxtQuinoaBowl>>}

\* what classify_by_product_info(product_name=..., ingredients=...) returns for each
\* product, computed once
Classified ==
  [product \in Products |-> classify_by_product_info(product[1], <<>>, product[2], FALSE)]

\* the keys of the nutrient rules, and each rule's threshold
RuleKeys == {"Sugar", "Sodium", "SaturatedFat", "Protein", "VitaminC", "Calcium"}
thresholds ==
  [Sugar |-> 15, Sodium |-> 500, SaturatedFat |-> 5, Protein |-> 15, VitaminC |-> 30,
   Calcium |-> 150]

\* for every set of rules: the map that puts those keys just above their thresholds
\* and leaves the others out, and the one that puts the others at their thresholds
ThresholdFacts ==
  {[k \in above |-> thresholds[k] + 1] : above \in SUBSET RuleKeys}
  \cup {[k \in RuleKeys |-> IF k \in above THEN thresholds[k] + 1 ELSE thresholds[k]] :
          above \in SUBSET RuleKeys}

NutritionInputs == ThresholdFacts \cup PredictInputs

\* the exceptions injected into one analyze_product call: in the classifier, and in
\* the health branch when the call takes it
Faults(health_branch) ==
  {[diet |-> d, health |-> h] :
     d \in {"", "TypeError"},
     h \in IF health_branch THEN {"", "complete", "predict", "rating"} ELSE {""}}

\* NutriAnalyzer.__init__ / _load_models: load_model in a try/except that only prints
LoadModels ==
  /\ pc = "new"
  /\ \E read_fails \in {"", "model", "scaler"} : load_model(read_fails)
  /\ pc' = "ready"
  /\ UNCHANGED <<dcall, model_file, scaler_file, results, comparison, helpers>>

\* NutriAnalyzer.analyze_product
AnalyzeProduct ==
  /\ pc = "ready"
  /\ \E product \in Products, nutrition_facts \in NutritionInputs :
       \E faults \in Faults(DOMAIN nutrition_facts # {} /\ is_trained) :
       LET health == health_step(nutrition_facts, faults.health)
       IN  /\ results' = analyze_product(product[1], product[2], nutrition_facts, faults,
                                         Classified[product])
           /\ last' = IF health.called
                        THEN Call("predict_health_score", health.outcome.raised,
                                  health.outcome.returned, health.outcome.score,
                                  health.arg)
                        ELSE last
  /\ pc' = "done"
  /\ UNCHANGED <<dcall, model, scaler, is_trained, model_file, scaler_file, comparison, helpers>>

\* a direct call of analyzer.health_model.predict_health_score
PredictDirect ==
  /\ pc = "ready"
  /\ \E nutrition_data \in PredictInputs :
       LET outcome == predict_health_score(nutrition_data)
       IN  last' = Call("predict_health_score", outcome.raised, outcome.returned,
                        outcome.score, nutrition_data)
  /\ pc' = "done"
  /\ UNCHANGED <<dcall, model, scaler, is_trained, model_file, scaler_file, results, comparison, helpers>>

MaxProducts == 3

\* the product dicts handed to compare_products: a protein-rich product, two that
\* are not, one without nutrition data, and one in the shape of the classifier
\* test's cases, whose key 'name' is no parameter of analyze_product
EntryChicken == [ingredients |-> TxtChickenBreast, nutrition_facts |-> [Protein |-> 16]]
EntrySpinach == [product_name |-> NameTestSnack, nutrition_facts |-> VecSpinach]
EntryCheese == [ingredients |-> TxtCheese, nutrition_facts |-> [Sugar |-> 16]]
EntryBare == [product_name |-> NameTestSnack]
EntryNamed == [name |-> NameTestSnack, ingredients |-> TxtQuinoaBowl]

Entries == {EntryChicken, EntrySpinach, EntryCheese, EntryBare, EntryNamed}

ProductLists == UNION {[1..n -> Entries] : n \in 0..MaxProducts}

\* the exceptions injected into the failing entry of a batch: one in the classifier
\* and one in predict_health_score
EntryFaults == {[diet |-> "TypeError", health |-> "predict"]}

\* the health branch of analyze_product calls predict_health_score for the entry
Predicts(product, faults) ==
  health_step(get(product, "nutrition_facts", EmptyFacts), faults.health).called

\* NutriAnalyzer.compare_products
CompareProducts ==
  /\ pc = "ready"
  /\ \E products \in ProductLists, failing \in 0..MaxProducts, fault \in EntryFaults :
       LET faults == [i \in DOMAIN products |-> IF i = failing THEN fault ELSE NoFaults]
           outcome == compare_products(products, faults, Classified)
           callers == {i \in 1..outcome.analysed : Predicts(products[i], faults[i])}
           i == CHOOSE c \in callers : \A d \in callers : d <= c
           health == health_step(get(products[i], "nutrition_facts", EmptyFacts),
                                 faults[i].health)
       IN  /\ failing <= Len(products)
           /\ comparison' = outcome
           /\ last' = IF callers = {}
                        THEN last
                        ELSE Call("predict_health_score", health.outcome.raised,
                                  health.outcome.returned, health.outcome.score,
                                  health.arg)
  /\ pc' = "done"
  /\ UNCHANGED <<dcall, model, scaler, is_trained, model_file, scaler_file, results,
                 helpers>>

Init ==
  /\ dcall = NoCall
  /\ Constructed
  /\ \E disk \in DiskStates : model_file = disk[1] /\ scaler_file = disk[2]

Next == LoadModels \/ AnalyzeProduct \/ PredictDirect \/ CompareProducts

Spec == Init /\ [][Next]_vars


-----------------------------------------------------------------------------
(* The scoring functions of HealthScoreModel, each applied once to an input  *)
(* drawn from a bounded set.                                                 *)

\* the scores get_health_rating is given: every whole score of the clamp's range
Scores == 0..100

\* a call of HealthScoreModel.get_health_rating
GetHealthRating ==
  /\ pc = "new"
  /\ \E score \in Scores :
       last' = Call("get_health_rating", "", get_health_rating(score), <<score>>,
                    EmptyFacts)
  /\ pc' = "done"
  /\ UNCHANGED <<dcall, model, scaler, is_trained, model_file, scaler_file, results,
                 comparison, helpers>>

\* the example row of the module's __main__ block
SampleNutrition ==
  [Calories |-> 250, Protein |-> 8, TotalFat |-> 10, Carbohydrate |-> 30, Sodium |-> 400,
   SaturatedFat |-> 3, Sugar |-> 15, Calcium |-> 100, Iron |-> 2, Potassium |-> 200,
   VitaminC |-> 10, VitaminE |-> 1, VitaminD |-> 0]

\* for each scored nutrient, the values on both sides of each of its thresholds
BandEdges ==
  [Calories |-> {100, 101, 200, 201, 300, 301, 500, 501},
   Protein |-> {4, 5, 9, 10, 19, 20},
   TotalFat |-> {3, 4, 10, 11, 30, 31},
   SaturatedFat |-> {1, 2, 5, 6, 10, 11},
   Sugar |-> {2, 3, 10, 11, 25, 26},
   Sodium |-> {100, 101, 300, 301, 1000, 1001},
   VitaminC |-> {9, 10, 49, 50},
   Calcium |-> {99, 100, 199, 200},
   Iron |-> {1, 2, 4, 5},
   Potassium |-> {149, 150, 299, 300}]

ScoredNutrients == DOMAIN BandEdges

\* the value of each scored nutrient that earns the most points, and the one that
\* earns the fewest
BestValues ==
  [Calories |-> 100, Protein |-> 20, TotalFat |-> 3, SaturatedFat |-> 1, Sugar |-> 2,
   Sodium |-> 100, VitaminC |-> 50, Calcium |-> 200, Iron |-> 5, Potassium |-> 300]
WorstValues ==
  [Calories |-> 501, Protein |-> 4, TotalFat |-> 31, SaturatedFat |-> 11, Sugar |-> 26,
   Sodium |-> 1001, VitaminC |-> 9, Calcium |-> 99, Iron |-> 1, Potassium |-> 149]

\* the dense rows that are scored: the sample row with one nutrient moved to an edge
\* of a band, and the rows with every scored nutrient at its best or worst value
ScoredRows ==
  {[SampleNutrition EXCEPT ![n] = v] : <<n, v>> \in
     UNION {{<<k, e>> : e \in BandEdges[k]} : k \in ScoredNutrients}}
  \cup {[c \in FeatureSet |->
           IF c \in ScoredNutrients
             THEN IF c \in good THEN BestValues[c] ELSE WorstValues[c]
             ELSE SampleNutrition[c]] : good \in SUBSET ScoredNutrients}

\* HealthScoreModel._calculate_health_score on a frame of one row
CalculateHealthScore ==
  /\ pc = "new"
  /\ \E row \in ScoredRows :
       last' = Call("_calculate_health_score", "", "scores",
                    <<calculate_health_score(row)>>, row)
  /\ pc' = "done"
  /\ UNCHANGED <<dcall, model, scaler, is_trained, model_file, scaler_file, results,
                 comparison, helpers>>

InitScore == dcall = NoCall /\ Constructed /\ NoFiles

NextScore == GetHealthRating \/ CalculateHealthScore

SpecScore == InitScore /\ [][NextScore]_vars

-----------------------------------------------------------------------------
(* The nutrition value extraction, applied once to a label text of at most   *)
(* MaxLines lines.                                                           *)

MaxLines == 3

\* lines of the sample label, and a sodium, a salt and a calcium line beside them
LineCalories == <<"C","a","l","o","r","i","e","s",":"," ","4","5","0">>
LineSaturatedFat == <<"S","a","t","u","r","a","t","e","d"," ","F","a","t",":"," ","6","g">>
LineProtein == <<"P","r","o","t","e","i","n",":"," ","1","2","g">>
LineSodiumMg == <<"S","o","d","i","u","m",":"," ","1","5","0","m","g">>
LineSodiumG == <<"S","o","d","i","u","m",":"," ","0",".","1","5"," ","g">>
LineSalt == <<"S","a","l","t",":"," ","1",".","5"," ","g">>
LineCalcium == <<"C","a","l","c","i","u","m",":"," ","1","2","0","m","g">>

LabelLines ==
  {LineCalories, LineSaturatedFat, LineProtein, LineSodiumMg, LineSodiumG, LineSalt,
   LineCalcium}

\* the lines, each followed by a line break
RECURSIVE JoinLines(_)
JoinLines(lines) ==
  IF lines = <<>> THEN <<>> ELSE Head(lines) \o <<"\n">> \o JoinLines(Tail(lines))

LabelTexts == {JoinLines(lines) : lines \in UNION {[1..n -> LabelLines] : n \in 0..MaxLines}}

\* a call of OCRProcessor.extract_nutrition_values
ExtractNutritionValues ==
  /\ ~ocr.called
  /\ \E text \in LabelTexts : ocr' = Extraction(text)
  /\ UNCHANGED <<dcall, model, scaler, is_trained, model_file, scaler_file, last, results,
                 comparison, pc, max_requests, window_seconds,
                 requests, calls, now, trainer, predictor>>

InitOcr == dcall = NoCall /\ Constructed /\ NoFiles

NextOcr == ExtractNutritionValues

SpecOcr == InitOcr /\ [][NextOcr]_vars

-----------------------------------------------------------------------------
(* The rate limiter: a limiter constructed with some limit and window, and   *)
(* at most MaxCalls calls of is_allowed, each made after the clock has       *)
(* advanced by at most MaxElapsed.                                           *)

MaxCalls == 4
MaxElapsed == 2
MaxRequests == 2
MaxWindow == 3

\* the client ids rate_limit passes: the session id, 'anonymous' without one
Clients == {"anonymous", "session"}

\* the record of one is_allowed call: the client's recorded times before and after
Answer(client_id, t_now, before, answer) ==
  [client_id |-> client_id, time |-> t_now, allowed |-> answer.allowed,
   before |-> get(before, client_id, <<>>), after |-> get(answer.requests, client_id, <<>>)]

\* a call of RateLimiter.is_allowed, `elapsed` after the call before it
IsAllowed ==
  /\ Len(calls) < MaxCalls
  /\ \E client_id \in Clients, elapsed \in 0..MaxElapsed :
       LET t_now == now + elapsed
           answer == is_allowed(max_requests, window_seconds, requests, client_id, t_now)
       IN  /\ now' = t_now
           /\ requests' = answer.requests
           /\ calls' = Append(calls, Answer(client_id, t_now, requests, answer))
  /\ UNCHANGED <<dcall, model, scaler, is_trained, model_file, scaler_file, last, results,
                 comparison, pc, ocr, max_requests, window_seconds, trainer,
                 predictor>>

\* RateLimiter(max_requests, window_seconds)
InitLimiter ==
  /\ dcall = NoCall /\ NoFiles
  /\ model = UnfittedModel /\ scaler = UnfittedScaler /\ is_trained = FALSE
  /\ last = NoModelCall /\ results = NoAnalysis /\ comparison = NoComparison /\ pc = "new"
  /\ ocr = NoExtraction
  /\ max_requests \in 1..MaxRequests
  /\ window_seconds \in 1..MaxWindow
  /\ requests = NoRequests
  /\ calls = <<>>
  /\ now = 0
  /\ trainer = IdleTrainer
  /\ predictor = IdlePredictor

NextLimiter == IsAllowed

SpecLimiter == InitLimiter /\ [][NextLimiter]_vars

-----------------------------------------------------------------------------
(* One HealthScoreModel shared by two threads: one trains, saves and loads,  *)
(* the other predicts. The methods take no lock, so a thread may run between *)
(* any two statements of the other; each statement that reads or assigns an  *)
(* attribute of the instance is one step.                                    *)

\* train up to its row count check (lines 163-167)
TrainStart ==
  /\ trainer.at = "idle"
  /\ \E dataset \in Datasets :
       IF ~dataset.exists \/ dataset.rows < 100
         THEN train(dataset) /\ UNCHANGED trainer
         ELSE /\ trainer' = [at |-> "fit_scaler", run |-> dataset.id, out |-> dataset.out,
                             lean |-> dataset.lean]
              /\ UNCHANGED <<model, scaler, is_trained, last>>
  /\ UNCHANGED <<dcall, model_file, scaler_file, results, comparison, pc, ocr, max_requests,
                 window_seconds, requests, calls, now, predictor>>

\* self.scaler.fit_transform(X_train) (line 175)
TrainFitScaler ==
  /\ trainer.at = "fit_scaler"
  /\ scaler' = [run |-> trainer.run]
  /\ trainer' = [trainer EXCEPT !.at = "fit_model"]
  /\ UNCHANGED <<dcall, model, is_trained, model_file, scaler_file, last, results, comparison,
                 pc, ocr, max_requests, window_seconds, requests, calls, now, predictor>>

\* self.model.fit(X_train_scaled, y_train) (line 180)
TrainFitModel ==
  /\ trainer.at = "fit_model"
  /\ model' = [run |-> trainer.run, out |-> trainer.out, lean |-> trainer.lean]
  /\ trainer' = [trainer EXCEPT !.at = "fitted"]
  /\ UNCHANGED <<dcall, scaler, is_trained, model_file, scaler_file, last, results, comparison,
                 pc, ocr, max_requests, window_seconds, requests, calls, now, predictor>>

\* self.is_trained = True and the return (lines 201-202)
TrainFinish ==
  /\ trainer.at = "fitted"
  /\ is_trained' = TRUE
  /\ last' = Call("train", "", "metrics", <<>>,
                  CHOOSE dataset \in Datasets : dataset.id = trainer.run)
  /\ trainer' = IdleTrainer
  /\ UNCHANGED <<dcall, model, scaler, model_file, scaler_file, results, comparison, pc, ocr,
                 max_requests, window_seconds, requests, calls, now, predictor>>

\* save_model by the training thread, as the module's example does after train
SaveTrained ==
  /\ trainer.at = "idle"
  /\ save_model("", FALSE)
  /\ UNCHANGED <<dcall, model, scaler, is_trained, results, comparison, pc, helpers>>

\* load_model up to its check that both files exist (lines 268-272)
LoadStart ==
  /\ trainer.at = "idle"
  /\ IF model_file.kind = "absent" \/ scaler_file.kind = "absent"
       THEN load_model("") /\ UNCHANGED trainer
       ELSE /\ trainer' = [IdleTrainer EXCEPT !.at = "load_model"]
            /\ UNCHANGED <<model, scaler, is_trained, last>>
  /\ UNCHANGED <<dcall, model_file, scaler_file, results, comparison, pc, ocr, max_requests,
                 window_seconds, requests, calls, now, predictor>>

\* self.model = joblib.load(model_path) (line 274)
LoadModelFile ==
  /\ trainer.at = "load_model"
  /\ model' = [run |-> model_file.run, out |-> model_file.out, lean |-> model_file.lean]
  /\ trainer' = [trainer EXCEPT !.at = "load_scaler"]
  /\ UNCHANGED <<dcall, scaler, is_trained, model_file, scaler_file, last, results, comparison,
                 pc, ocr, max_requests, window_seconds, requests, calls, now, predictor>>

\* self.scaler = joblib.load(scaler_path) (line 275)
LoadScalerFile ==
  /\ trainer.at = "load_scaler"
  /\ scaler' = [run |-> scaler_file.run]
  /\ trainer' = [trainer EXCEPT !.at = "loaded"]
  /\ UNCHANGED <<dcall, model, is_trained, model_file, scaler_file, last, results, comparison,
                 pc, ocr, max_requests, window_seconds, requests, calls, now, predictor>>

\* self.is_trained = True (line 276)
LoadFinish ==
  /\ trainer.at = "loaded"
  /\ is_trained' = TRUE
  /\ last' = Call("load_model", "", "None", <<>>, EmptyFacts)
  /\ trainer' = IdleTrainer
  /\ UNCHANGED <<dcall, model, scaler, model_file, scaler_file, results, comparison, pc, ocr,
                 max_requests, window_seconds, requests, calls, now, predictor>>

\* predict_health_score up to X_scaled = self.scaler.transform(X) (lines 216-229)
PredictStart ==
  /\ predictor.at = "idle"
  /\ \E nutrition_data \in PredictInputs :
       IF ~is_trained \/ ~(FeatureSet \subseteq DOMAIN nutrition_data) \/ scaler.run = 0
         THEN LET outcome == predict_health_score(nutrition_data)
              IN  /\ last' = Call("predict_health_score", outcome.raised, outcome.returned,
                                  outcome.score, nutrition_data)
                  /\ UNCHANGED predictor
         ELSE /\ predictor' = [at |-> "predict", arg |-> nutrition_data, scaler |-> scaler]
              /\ UNCHANGED last
  /\ UNCHANGED <<dcall, model, scaler, is_trained, model_file, scaler_file, results,
                 comparison, pc, ocr, max_requests, window_seconds, requests, calls, now,
                 trainer>>

\* scores = self.model.predict(X_scaled), the clamp and the return (lines 232-237);
\* the call is recorded with the scaler that made X_scaled
PredictFinish ==
  /\ predictor.at = "predict"
  /\ LET outcome == IF model.run = 0
                      THEN Raised("NotFittedError")
                      ELSE Returned("score",
                                    <<clip(forest_predict(model,
                                                          preprocess_data(predictor.arg)),
                                           0, 100)>>)
     IN  last' = [Call("predict_health_score", outcome.raised, outcome.returned,
                       outcome.score, predictor.arg)
                    EXCEPT !.pre.scaler = predictor.scaler]
  /\ predictor' = IdlePredictor
  /\ UNCHANGED <<dcall, model, scaler, is_trained, model_file, scaler_file, results,
                 comparison, pc, ocr, max_requests, window_seconds, requests, calls, now,
                 trainer>>

InitShared == dcall = NoCall /\ Constructed /\ NoFiles

NextShared ==
  \/ TrainStart \/ TrainFitScaler \/ TrainFitModel \/ TrainFinish
  \/ SaveTrained
  \/ LoadStart \/ LoadModelFile \/ LoadScalerFile \/ LoadFinish
  \/ PredictStart \/ PredictFinish

SpecShared == InitShared /\ [][NextShared]_vars

-----------------------------------------------------------------------------
(* Properties of the DietClassifier, checked under SpecDiet.                 *)

\* the maximal runs of word characters of a text, in order
RECURSIVE SplitWords(_)
SplitWords(text) ==
  IF text = <<>> THEN <<>>
  ELSE IF ~IsWordChar(Head(text)) THEN SplitWords(Tail(text))
  ELSE LET n == CHOOSE k \in 1..Len(text) :
                  /\ \A j \in 1..k : IsWordChar(text[j])
                  /\ (k = Len(text) \/ ~IsWordChar(text[k + 1]))
       IN  <<SubSeq(text, 1, n)>> \o SplitWords(SubSeq(text, n + 1, Len(text)))

\* the words of each keyword of a set
KeywordWords(keywords) == {SplitWords(keyword) : keyword \in keywords}
NonVegWords == KeywordWords(non_veg_keywords)
VegetarianWords == KeywordWords(vegetarian_keywords)
PureVegWords == KeywordWords(pure_veg_keywords)
JainWords == KeywordWords(jain_restricted)

\* some keyword's words stand in the word list, next to each other and whole
SomeWholeWords(keyword_words, words) ==
  \E kw \in keyword_words :
    \E i \in 1..Len(words) :
      /\ i + Len(kw) - 1 <= Len(words)
      /\ SubSeq(words, i, i + Len(kw) - 1) = kw

\* the text the call classifies
CallText ==
  IF dcall.fn = "classify_by_product_info"
    THEN dcall.product_name \o <<" ">> \o dcall.categories \o <<" ">> \o dcall.ingredients
    ELSE dcall.ingredients

\* the keyword stands in the text as written, lower-cased, with no word character on
\* either side of it
WrittenWhole(keyword, text) == search_word(keyword, lower(text))

\* C1: every ingredient text that holds a non-vegetarian keyword as a whole word is
\* classified Non-Vegetarian with confidence at least 0.9, by both entry points and
\* in both Jain modes.
C1_NonVegKeywordWins ==
  (dcall.done /\ \E keyword \in non_veg_keywords : WrittenWhole(keyword, dcall.ingredients))
  => /\ dcall.result.diet_type = "Non-Vegetarian"
     /\ dcall.result.confidence >= 90

\* C2: a tier is triggered only by a keyword whose words stand whole in the
\* normalized text, never by a keyword that is only part of a longer word;
\* "eggplant, rice" is plant-based and "egg, rice" is Non-Vegetarian.
C2_WholeWordOnly ==
  dcall.done =>
    LET words == SplitWords(clean_text(CallText))
        r == dcall.result
    IN  /\ r.diet_type = "Non-Vegetarian" => SomeWholeWords(NonVegWords, words)
        /\ r.reason = "Contains dairy products but no non-vegetarian ingredients"
             => SomeWholeWords(VegetarianWords, words)
        /\ r.reason = "Contains root vegetables (not suitable for Jain diet)"
             => SomeWholeWords(JainWords, words)
        /\ r.reason = "Contains only plant-based ingredients"
             => SomeWholeWords(PureVegWords, words)
        /\ (dcall.fn = "classify_by_ingredients" /\ dcall.ingredients = TxtEggplantRice)
             => /\ r.diet_type = "Pure Vegetarian"
                /\ r.reason = "Contains only plant-based ingredients"
        /\ (dcall.fn = "classify_by_ingredients" /\ dcall.ingredients = TxtEggRice)
             => r.diet_type = "Non-Vegetarian"

\* C2's case: "egg" stands in the text only inside "eggplant", and the call returned
C2_Witness ==
  /\ dcall.done
  /\ dcall.fn = "classify_by_ingredients"
  /\ dcall.ingredients = TxtEggplantRice
  /\ substring_in(<<"e","g","g">>, dcall.ingredients)
  /\ dcall.result.diet_type = "Pure Vegetarian"

-----------------------------------------------------------------------------
(* Properties of the NutriAnalyzer, checked under Spec.                      *)

Insufficient == DOMAIN results.args.nutrition_facts = {} \/ ~is_trained

\* analyze_product called predict_health_score
AnalyzePredicted == results.called /\ last.op = "predict_health_score"

\* C3: analyze_product predicts only with a non-empty nutrition map and a Trained
\* model; otherwise it returns score None and rating 'Insufficient data', calls
\* predict_health_score not at all and does not raise.
C3_InsufficientData ==
  results.called =>
    /\ Insufficient =>
         /\ results.health_analysis.score = <<>>
         /\ results.health_analysis.rating = "Insufficient data"
         /\ results.raised = ""
         /\ ~AnalyzePredicted
    /\ AnalyzePredicted => ~Insufficient

\* C3's case: nutrition data was supplied to an Untrained analyzer
C3_Witness ==
  /\ results.called
  /\ ~is_trained
  /\ DOMAIN results.args.nutrition_facts # {}
  /\ results.health_analysis.rating = "Insufficient data"

Ratings == {"Excellent", "Good", "OK", "Poor"}

\* C4: an exception in the diet classification gives {Unknown, 0.0, reason with the
\* error text}, one in completion, prediction or rating gives {score None, rating
\* 'Unknown', error text}; the other sub-analysis and the suggestion step still run
\* and analyze_product returns.
C4_FailuresIsolated ==
  results.called =>
    LET diet == results.diet_classification
        health == results.health_analysis
        product == <<results.args.product_name, results.args.ingredients>>
    IN  /\ results.raised = ""
        /\ results.analysis_status = "success"
        /\ results.faults.diet # "" =>
             /\ diet = DietResult("Unknown", 0,
                                  "Classification error: " \o results.faults.diet)
             /\ health.rating \in Ratings \cup {"Insufficient data", "Unknown"}
             /\ (results.faults.health = "" /\ ~Insufficient) =>
                  /\ health.score # <<>>
                  /\ health.rating \in Ratings
                  /\ \E i \in DOMAIN results.suggestions :
                       results.suggestions[i] = score_suggestions(health.score)[1]
        /\ results.faults.health # "" =>
             /\ health.score = <<>>
             /\ health.rating = "Unknown"
             /\ health.error # ""
             /\ results.faults.diet = "" =>
                  /\ diet = Classified[product]
                  /\ results.suggestions = diet_suggestions(diet.diet_type)

\* C4's case: both sub-analyses failed in one call
C4_Witness ==
  /\ results.called
  /\ results.faults.diet # ""
  /\ results.faults.health = "predict"
  /\ results.health_analysis.rating = "Unknown"

\* C5: every score predict_health_score returns, and every present score of an
\* analysis result, lies in [0,100], for any non-negative input vector.
C5_ScoreInRange ==
  /\ (last.op = "predict_health_score" /\ last.score # <<>>) =>
       /\ \A k \in DOMAIN last.arg : last.arg[k] >= 0
       /\ last.score[1] >= 0
       /\ last.score[1] <= 100
  /\ (results.called /\ results.health_analysis.score # <<>>) =>
       /\ results.health_analysis.score[1] >= 0
       /\ results.health_analysis.score[1] <= 100

\* C5's case: an outlier vector, scored by a forest whose raw value is above 100
C5_Witness ==
  /\ last.op = "predict_health_score"
  /\ last.arg = VecOutlier
  /\ model.out > 100
  /\ last.score = <<100>>

\* the place of each suggestion in the order the rules are declared
RuleRank ==
  [s \in {"Great choice for plant-based eating!",
          "Contains dairy/eggs - good source of complete proteins",
          "Contains animal products - ensure portion control"} |-> 1]
  @@ [s \in {"Consider pairing with protein-rich legumes or nuts",
             "Add more vegetables for balanced nutrition",
             "Balance with plant-based sides for fiber"} |-> 2]
  @@ [s \in {"Excellent nutritional profile!", "Good nutritional choice",
             "Moderate nutrition - consume in moderation",
             "Consider healthier alternatives"} |-> 3]
  @@ ("High in sugar - limit portion size" :> 4)
  @@ ("High sodium content - drink plenty of water" :> 5)
  @@ ("High saturated fat - choose lean alternatives" :> 6)
  @@ ("Good protein source!" :> 7)
  @@ ("Rich in Vitamin C - great for immunity!" :> 8)
  @@ ("Good source of calcium for bone health!" :> 9)

\* every suggestion the rules produce for the result, truncated or not
Candidates ==
  diet_suggestions(results.diet_classification.diet_type)
    \o score_suggestions(results.health_analysis.score)
    \o nutrient_suggestions(results.health_analysis.nutrition_data)

\* C9: the suggestion list has at most 5 entries and is the prefix of the candidate
\* list in rule-declaration order: diet-tier advice, then score-band advice, then
\* sugar, sodium, saturated fat, protein, vitamin C, calcium.
C9_SuggestionsPrefix ==
  results.called =>
    LET s == results.suggestions
    IN  /\ Len(s) <= 5
        /\ Len(s) = Min(5, Len(Candidates))
        /\ \A i \in DOMAIN s : s[i] = Candidates[i]
        /\ \A i \in DOMAIN s : s[i] \in DOMAIN RuleRank
        /\ \A i, j \in DOMAIN s : i < j => RuleRank[s[i]] < RuleRank[s[j]]
        /\ \A i \in DOMAIN Candidates :
             (Candidates[i] \in DOMAIN RuleRank /\ \E j \in DOMAIN s : RuleRank[Candidates[i]] < RuleRank[s[j]])
               => \E j \in DOMAIN s : s[j] = Candidates[i]

\* C9's case: all nine rules fire and five suggestions are kept
C9_Witness ==
  /\ results.called
  /\ Len(Candidates) = 9
  /\ Len(results.suggestions) = 5

\* the first advice of each diet tier
TierAdvice ==
  [t \in {"Pure Vegetarian", "Vegetarian", "Non-Vegetarian"} |->
     IF t = "Pure Vegetarian" THEN "Great choice for plant-based eating!"
     ELSE IF t = "Vegetarian" THEN "Contains dairy/eggs - good source of complete proteins"
     ELSE "Contains animal products - ensure portion control"]

\* C10: for every label the classifier assigns other than Unknown, the suggestion
\* list starts with that tier's advice.
C10_TierAdviceForEveryLabel ==
  (results.called /\ results.diet_classification.diet_type \in DOMAIN TierAdvice)
  => /\ Len(results.suggestions) >= 1
     /\ results.suggestions[1] = TierAdvice[results.diet_classification.diet_type]

-----------------------------------------------------------------------------
(* Properties of the HealthScoreModel life cycle, checked under SpecModel.   *)

Unchanged(call) ==
  /\ model = call.pre.model
  /\ scaler = call.pre.scaler
  /\ is_trained = call.pre.is_trained

\* C6: in the Untrained state predict_health_score fails with the 'model not
\* trained' error, returns no score and leaves the state Untrained.
C6_UntrainedPredictFails ==
  (last.op = "predict_health_score" /\ ~last.pre.is_trained)
  => /\ last.raised = "Model must be trained before making predictions"
     /\ last.score = <<>>
     /\ last.returned = ""
     /\ ~is_trained
     /\ Unchanged(last)

\* C6's case: a predict on an instance whose load_model failed after reading the
\* model file
C6_Witness ==
  /\ last.op = "predict_health_score"
  /\ ~last.pre.is_trained
  /\ model.run # 0
  /\ last.raised # ""

\* C7: whenever the instance is Trained its model and scaler come from the same
\* training run, and a load_model that raises leaves model, scaler and the trained
\* flag as they were.
C7_AtomicPair ==
  /\ is_trained => model.run = scaler.run
  /\ (last.op = "load_model" /\ last.raised # "") => Unchanged(last)

\* C8: train on a dataset with fewer than 100 usable rows raises, fits nothing and
\* does not make the instance Trained.
C8_TooFewRowsRaises ==
  (last.op = "train" /\ last.arg.exists /\ last.arg.rows < 100)
  => /\ last.raised # ""
     /\ Unchanged(last)


-----------------------------------------------------------------------------
(* Further properties of the DietClassifier, checked under SpecDiet.         *)

\* the text of a call of either entry point
TextOf(call) ==
  IF call.fn = "classify_by_product_info"
    THEN call.product_name \o <<" ">> \o call.categories \o <<" ">> \o call.ingredients
    ELSE call.ingredients

CallTexts == {TextOf(call) : call \in DietCalls}

\* the one-word keywords of a set as words, and its longer keywords as word lists
OneWord(keyword_words) == {kw[1] : kw \in {k \in keyword_words : Len(k) = 1}}
ManyWords(keyword_words) == {k \in keyword_words : Len(k) > 1}
NonVegOne == OneWord(NonVegWords)
NonVegMany == ManyWords(NonVegWords)
VegetarianOne == OneWord(VegetarianWords)
VegetarianMany == ManyWords(VegetarianWords)
PureVegOne == OneWord(PureVegWords)
PureVegMany == ManyWords(PureVegWords)
JainOne == OneWord(JainWords)
JainMany == ManyWords(JainWords)

\* some keyword of the set stands in the word list as whole words
Hit(one, many, words) ==
  \/ \E i \in DOMAIN words : words[i] \in one
  \/ SomeWholeWords(many, words)

\* for every text of a call: which keyword sets stand in it as whole words
TierHits ==
  [text \in CallTexts |->
     LET words == SplitWords(clean_text(text))
     IN  [non_veg |-> Hit(NonVegOne, NonVegMany, words),
          dairy |-> Hit(VegetarianOne, VegetarianMany, words),
          jain |-> Hit(JainOne, JainMany, words),
          plant |-> Hit(PureVegOne, PureVegMany, words)]]

\* the text has nothing but white space
Blank(text) == \A i \in DOMAIN text : text[i] \in SpaceChars

NoInformation == DietResult("Unknown", 0, "No ingredient information provided")

\* C17: when product name, categories and ingredients are all empty or white space
\* the result is {Unknown, 0.0, 'No ingredient information provided'}, with no boost,
\* and Unknown is the result of no other input.
C17_UnknownIffBlank ==
  dcall.done =>
    /\ Blank(CallText) => dcall.result = NoInformation
    /\ dcall.result.diet_type = "Unknown" => Blank(CallText)
    /\ dcall.result.confidence = 0 => Blank(CallText)

\* C17's case: a product with no name, no categories and white space for ingredients
C17_Witness ==
  /\ dcall.done
  /\ dcall.fn = "classify_by_product_info"
  /\ dcall.ingredients = TxtSpaces
  /\ dcall.product_name = <<>>
  /\ dcall.categories = <<>>
  /\ dcall.result = NoInformation

DefaultReason == "No animal-derived ingredients detected"

\* the base confidence of each outcome of the ingredient pass, by its reason
BaseConfidence ==
  ("Contains meat, fish, eggs, or other non-vegetarian ingredients" :> 95)
  @@ ("Contains dairy products but no non-vegetarian ingredients" :> 85)
  @@ ("Contains root vegetables (not suitable for Jain diet)" :> 75)
  @@ ("Contains only plant-based ingredients" :> 80)
  @@ (DefaultReason :> 65)
  @@ ("No ingredient information provided" :> 0)

\* C18: a text that is not blank and holds no keyword of any consulted set is
\* labelled 'Pure Vegetarian' with reason 'No animal-derived ingredients detected'
\* and confidence 0.65, which is below the base confidence of every outcome that a
\* keyword triggers.
C18_DefaultIsLowest ==
  (dcall.done /\ dcall.fn = "classify_by_ingredients") =>
    LET hits == TierHits[CallText]
        r == dcall.result
    IN  /\ ( /\ ~Blank(CallText)
             /\ ~hits.non_veg /\ ~hits.dairy /\ ~hits.plant
             /\ dcall.jain => ~hits.jain )
          => r = DietResult("Pure Vegetarian", 65, DefaultReason)
        /\ r.reason = DefaultReason => r.diet_type = "Pure Vegetarian"
        /\ (r.diet_type # "Unknown" /\ r.reason # DefaultReason)
             => /\ r.reason \in DOMAIN BaseConfidence
                /\ r.confidence = BaseConfidence[r.reason]
                /\ r.confidence > BaseConfidence[DefaultReason]

\* C18's case: "salt, salt" holds no keyword of any set, and the call is in Jain mode
C18_Witness ==
  /\ dcall.done
  /\ dcall.fn = "classify_by_ingredients"
  /\ dcall.jain
  /\ dcall.ingredients = Join(<<2, 6, 2>>)
  /\ ~TierHits[dcall.ingredients].plant
  /\ dcall.result.reason = DefaultReason

\* the indicators that corroborate each label, and the ceiling of its boost
Corroborates ==
  [label \in {"Non-Vegetarian", "Vegetarian", "Pure Vegetarian", "Unknown"} |->
     IF label = "Non-Vegetarian" THEN [indicators |-> non_veg_indicators, ceiling |-> 98]
     ELSE IF label = "Vegetarian" THEN [indicators |-> veg_indicators, ceiling |-> 92]
     ELSE IF label = "Pure Vegetarian" THEN [indicators |-> pure_veg_indicators, ceiling |-> 95]
     ELSE [indicators |-> <<>>, ceiling |-> 0]]

\* the label of each outcome of the ingredient pass, by its reason
LabelOf ==
  ("Contains meat, fish, eggs, or other non-vegetarian ingredients" :> "Non-Vegetarian")
  @@ ("Contains dairy products but no non-vegetarian ingredients" :> "Vegetarian")
  @@ ("Contains root vegetables (not suitable for Jain diet)" :> "Vegetarian")
  @@ ("Contains only plant-based ingredients" :> "Pure Vegetarian")
  @@ (DefaultReason :> "Pure Vegetarian")
  @@ ("No ingredient information provided" :> "Unknown")

\* C19: the confidence pass of classify_by_product_info keeps the label and the
\* reason of the ingredient pass; the confidence it returns is at least the base
\* confidence, at most 0.15 above it, above it only when product name or categories
\* hold an indicator of the assigned label, never above that label's ceiling or 0.98,
\* and within [0,1].
C19_BoostKeepsLabel ==
  (dcall.done /\ dcall.fn = "classify_by_product_info") =>
    LET r == dcall.result
        product_text == lower(dcall.product_name \o <<" ">> \o dcall.categories)
    IN  /\ r.reason \in DOMAIN LabelOf
        /\ r.diet_type = LabelOf[r.reason]
        /\ r.confidence >= BaseConfidence[r.reason]
        /\ r.confidence <= BaseConfidence[r.reason] + 15
        /\ r.confidence > BaseConfidence[r.reason]
             => /\ \E i \in DOMAIN Corroborates[r.diet_type].indicators :
                     substring_in(Corroborates[r.diet_type].indicators[i], product_text)
                /\ r.confidence <= Corroborates[r.diet_type].ceiling
        /\ r.confidence <= 98
        /\ r.confidence >= 0 /\ r.confidence <= 100

\* C19's case: the category 'dairy' corroborates a Vegetarian label and the boost
\* stops at the ceiling
C19_Witness ==
  /\ dcall.done
  /\ dcall.fn = "classify_by_product_info"
  /\ dcall.categories = CatDairy
  /\ dcall.result.diet_type = "Vegetarian"
  /\ dcall.result.confidence = 92

JainReason == "Contains root vegetables (not suitable for Jain diet)"

\* what the call returns when it is made without Jain mode
WithoutJainMode ==
  IF dcall.fn = "classify_by_product_info"
    THEN classify_by_product_info(dcall.product_name, dcall.categories, dcall.ingredients,
                                  FALSE)
    ELSE classify_by_ingredients(dcall.ingredients, FALSE)

DairyReason == "Contains dairy products but no non-vegetarian ingredients"

-----------------------------------------------------------------------------
(* Further properties of NutriAnalyzer.analyze_product, checked under Spec.  *)

\* the supplied nutrition map, default-filled
CompletedInput == complete_nutrition_data(results.args.nutrition_facts)

\* the nutrient rules in the order they are declared: key, threshold, text
NutrientRules ==
  << <<"Sugar", 15, "High in sugar - limit portion size">>,
     <<"Sodium", 500, "High sodium content - drink plenty of water">>,
     <<"SaturatedFat", 5, "High saturated fat - choose lean alternatives">>,
     <<"Protein", 15, "Good protein source!">>,
     <<"VitaminC", 30, "Rich in Vitamin C - great for immunity!">>,
     <<"Calcium", 150, "Good source of calcium for bone health!">> >>

\* the texts of the rules whose threshold the vector exceeds
Exceeded(vector) ==
  {NutrientRules[i][3] : i \in {j \in DOMAIN NutrientRules :
                                  vector[NutrientRules[j][1]] > NutrientRules[j][2]}}

\* the nutrient-threshold texts among the candidates of the result
Considered ==
  LET nutrient == nutrient_suggestions(results.health_analysis.nutrition_data)
  IN  {nutrient[i] : i \in DOMAIN nutrient}

\* C11: on every path of analyze_product the nutrient-threshold suggestions
\* considered before the truncation are the rules exceeded in the completed vector
\* of the supplied nutrition map.
C11_ThresholdsOnCompletedVector ==
  results.called =>
    /\ Considered = Exceeded(CompletedInput)
    /\ Len(Candidates) <= 5 =>
         \A text \in Exceeded(CompletedInput) :
           \E i \in DOMAIN results.suggestions : results.suggestions[i] = text

\* C15: with empty ingredients and an empty nutrition map analyze_product returns
\* diet label Unknown with confidence 0.0, score None and rating 'Insufficient data'
\* and does not raise, Trained or not and whatever the product name.
C15_NothingKnown ==
  ( /\ results.called
    /\ results.args.ingredients = <<>>
    /\ DOMAIN results.args.nutrition_facts = {} )
  => /\ results.diet_classification.diet_type = "Unknown"
     /\ results.diet_classification.confidence = 0
     /\ results.health_analysis.score = <<>>
     /\ results.health_analysis.rating = "Insufficient data"
     /\ results.raised = ""

\* the documented defaults of the 13 canonical attributes
DocumentedDefaults ==
  ("Calories" :> 200) @@ ("Protein" :> 8) @@ ("TotalFat" :> 5) @@ ("Carbohydrate" :> 25)
  @@ ("Sodium" :> 300) @@ ("SaturatedFat" :> 2) @@ ("Sugar" :> 5) @@ ("Calcium" :> 50)
  @@ ("Iron" :> 2) @@ ("Potassium" :> 200) @@ ("VitaminC" :> 5) @@ ("VitaminE" :> 1)
  @@ ("VitaminD" :> 0)

\* C16: the completed vector has all 13 canonical attributes, equals the sparse
\* input on the input's keys and the documented default on every other key;
\* completing it again changes nothing, and a dense input is returned unchanged.
C16_CompletionOverlaysDefaults ==
  AnalyzePredicted =>
    LET input == results.args.nutrition_facts
        completed == last.arg
    IN  /\ Cardinality(DOMAIN DocumentedDefaults) = 13
        /\ DOMAIN DocumentedDefaults \subseteq DOMAIN completed
        /\ DOMAIN completed = DOMAIN DocumentedDefaults \cup DOMAIN input
        /\ \A k \in DOMAIN input : completed[k] = input[k]
        /\ \A k \in DOMAIN DocumentedDefaults \ DOMAIN input :
             completed[k] = DocumentedDefaults[k]
        /\ complete_nutrition_data(completed) = completed
        /\ DOMAIN DocumentedDefaults \subseteq DOMAIN input => completed = input
        /\ results.health_analysis.score # <<>>
             => results.health_analysis.nutrition_data = completed

\* C16's case: the sparse chicken breast is completed and scored
C16_Witness ==
  /\ AnalyzePredicted
  /\ results.args.nutrition_facts = VecChicken
  /\ last.arg["Sugar"] = 5
  /\ last.arg["Protein"] = 31
  /\ results.health_analysis.score # <<>>

-----------------------------------------------------------------------------
(* Properties of NutriAnalyzer.compare_products, checked under Spec.         *)

\* the present scores of the results the last comparison holds, by index
ComparedScores == valid_scores(comparison.products)

\* C12: the winner of a comparison is the entry whose present score is strictly
\* higher than every other present score; an entry without a score is never the
\* winner, and when no entry has a present score the winner stays None.
C12_StrictlyHighestWins ==
  (comparison.called /\ comparison.raised = "" /\ comparison.error = "") =>
    /\ DOMAIN ComparedScores = {} => comparison.winner = <<>>
    /\ DOMAIN ComparedScores # {} => comparison.winner # <<>>
    /\ comparison.winner # <<>> =>
         /\ comparison.winner[1].health_analysis.score # <<>>
         /\ \E i \in DOMAIN ComparedScores :
              /\ comparison.winner[1] = comparison.products[i]
              /\ \A j \in DOMAIN ComparedScores \ {i} :
                   ComparedScores[j] < ComparedScores[i]

\* C13: a comparison of at least 2 entries returns, with one result per input
\* entry in input order; an exception while one entry is analysed is recorded in
\* that entry's own result and every other entry is analysed as if alone.
C13_BatchNeverAborts ==
  (comparison.called /\ Len(comparison.args) >= 2) =>
    /\ comparison.raised = ""
    /\ comparison.analysed = Len(comparison.args)
    /\ Len(comparison.products) = Len(comparison.args)
    /\ \A i \in DOMAIN comparison.products :
         LET entry == comparison.args[i]
             result == comparison.products[i]
         IN  /\ result.product_name = get(entry, "product_name", <<>>)
             /\ result.args.ingredients = get(entry, "ingredients", <<>>)
             /\ result.analysis_status = "success"
             /\ comparison.faults[i].diet # "" =>
                  result.diet_classification =
                    DietResult("Unknown", 0,
                               "Classification error: " \o comparison.faults[i].diet)
             /\ comparison.faults[i] = NoFaults =>
                  result = analyze_entry(entry, NoFaults, Classified)

\* C14: a comparison of fewer than 2 entries returns the error 'Need at least 2
\* products to compare', analyses no product and designates no winner.
C14_TooFewProducts ==
  (comparison.called /\ Len(comparison.args) < 2) =>
    /\ comparison.error = "Need at least 2 products to compare"
    /\ comparison.raised = ""
    /\ comparison.analysed = 0
    /\ comparison.products = <<>>
    /\ comparison.winner = <<>>
    /\ last.op # "predict_health_score"

\* C14's case: a single product with nutrition data, handed to a Trained analyzer
C14_Witness ==
  /\ comparison.called
  /\ Len(comparison.args) = 1
  /\ DOMAIN get(comparison.args[1], "nutrition_facts", EmptyFacts) # {}
  /\ is_trained
  /\ comparison.error # ""

-----------------------------------------------------------------------------
(* Properties of inference in the NutriAnalyzer, checked under Spec.         *)

\* the 13 feature values of a dense vector
Features(nutrition_data) == [c \in FeatureSet |-> nutrition_data[c]]

\* C28: at inference every value of a row with all 13 attributes reaches the scaler
\* as supplied, however large, and the score is the forest's value for those
\* values, brought into [0,100] by the final clamp alone.
C28_InferenceClipsNothing ==
  ( /\ last.op = "predict_health_score"
    /\ FeatureSet \subseteq DOMAIN last.arg
    /\ last.raised = "" )
  => /\ preprocess_data(last.arg) = Features(last.arg)
     /\ last.score = <<clip(forest_predict(last.pre.model, Features(last.arg)), 0, 100)>>

\* C28's case: a vector far above the reference foods, scored by a forest whose raw
\* value lies above 100
C28_Witness ==
  /\ last.op = "predict_health_score"
  /\ last.arg = VecOutlier
  /\ preprocess_data(last.arg)["Calories"] = 1000000
  /\ last.pre.model.out > 100
  /\ last.score = <<100>>

\* the diet labels of the classifier, and the one of a failed classification
DietLabels == {"Non-Vegetarian", "Vegetarian", "Pure Vegetarian", "Unknown"}

\* C25: on a Trained analyzer a nutrition map with all 13 attributes, scored without
\* an exception, gives a result with a diet classification, a present score, the
\* rating get_health_rating returns for that score, and suggestions.
C25_DenseMapIsScored ==
  ( /\ results.called
    /\ is_trained
    /\ FeatureSet \subseteq DOMAIN results.args.nutrition_facts
    /\ results.faults.health = "" )
  => /\ results.raised = ""
     /\ results.analysis_status = "success"
     /\ results.diet_classification.diet_type \in DietLabels
     /\ results.health_analysis.score # <<>>
     /\ results.health_analysis.score = last.score
     /\ results.health_analysis.rating =
          get_health_rating(results.health_analysis.score[1])
     /\ results.health_analysis.rating \in Ratings
     /\ results.health_analysis.nutrition_data = results.args.nutrition_facts
     /\ results.suggestions # <<>>
     /\ Len(results.suggestions) <= 5

\* C25's case: a dense map and a dairy ingredient list, rated 'Excellent'
C25_Witness ==
  /\ results.called
  /\ is_trained
  /\ FeatureSet \subseteq DOMAIN results.args.nutrition_facts
  /\ results.health_analysis.rating = "Excellent"
  /\ results.diet_classification.diet_type = "Vegetarian"

-----------------------------------------------------------------------------
(* Properties of the scoring functions, checked under SpecScore.             *)

\* the ratings from worst to best
RatingRank == [Poor |-> 0, OK |-> 1, Good |-> 2, Excellent |-> 3]

\* C21: get_health_rating returns 'Excellent' for score >= 80, 'Good' for
\* 65 <= score < 80, 'OK' for 45 <= score < 65 and 'Poor' for score < 45: every
\* score in [0,100] gets exactly one rating, and no lower score gets a better one.
C21_RatingBands ==
  last.op = "get_health_rating" =>
    LET score == last.score[1]
        rating == last.returned
    IN  /\ rating \in Ratings
        /\ rating = "Excellent" <=> score >= 80
        /\ rating = "Good" <=> (65 <= score /\ score < 80)
        /\ rating = "OK" <=> (45 <= score /\ score < 65)
        /\ rating = "Poor" <=> score < 45
        /\ \A below \in Scores :
             below <= score =>
               RatingRank[get_health_rating(below)] <= RatingRank[rating]

\* C21's case: a score on a threshold gets the band above it
C21_Witness ==
  /\ last.op = "get_health_rating"
  /\ last.score = <<80>>
  /\ last.returned = "Excellent"

\* the bands of each scored nutrient in the order they are listed: <<relation, bound,
\* adjustment>>
Bands ==
  [Calories |-> << <<"<=", 100, 15>>, <<"<=", 200, 10>>, <<"<=", 300, 5>>, <<">", 500, -15>> >>,
   Protein |-> << <<">=", 20, 15>>, <<">=", 10, 10>>, <<">=", 5, 5>> >>,
   TotalFat |-> << <<"<=", 3, 10>>, <<"<=", 10, 5>>, <<">", 30, -15>> >>,
   SaturatedFat |-> << <<"<=", 1, 10>>, <<"<=", 5, 5>>, <<">", 10, -15>> >>,
   Sugar |-> << <<"<=", 2, 10>>, <<"<=", 10, 5>>, <<">", 25, -15>> >>,
   Sodium |-> << <<"<=", 100, 10>>, <<"<=", 300, 5>>, <<">", 1000, -15>> >>,
   VitaminC |-> << <<">=", 50, 10>>, <<">=", 10, 5>> >>,
   Calcium |-> << <<">=", 200, 8>>, <<">=", 100, 4>> >>,
   Iron |-> << <<">=", 5, 8>>, <<">=", 2, 4>> >>,
   Potassium |-> << <<">=", 300, 8>>, <<">=", 150, 4>> >>]

\* the value lies in the band
InBand(value, band) ==
  IF band[1] = "<=" THEN value <= band[2]
  ELSE IF band[1] = ">=" THEN value >= band[2]
  ELSE value > band[2]

\* the adjustment of the one band that applies to the value: the first it lies in
BandAdjustment(value, bands) ==
  LET matching == {i \in DOMAIN bands : InBand(value, bands[i])}
  IN  IF matching = {} THEN 0
      ELSE bands[CHOOSE i \in matching : \A j \in matching : i <= j][3]

RECURSIVE SumOver(_, _)
SumOver(f, keys) ==
  IF keys = {} THEN 0
  ELSE LET k == CHOOSE x \in keys : TRUE
       IN  f[k] + SumOver(f, keys \ {k})

\* 50 plus the adjustments of the row, not clamped
Unclamped(row) ==
  50 + SumOver([n \in DOMAIN Bands |-> BandAdjustment(row[n], Bands[n])], DOMAIN Bands)

\* C27: the training label of a dense row is 50 plus the adjustment of one band per
\* nutrient, clamped to [0,100]; it lies in [0,100].
C27_LabelIsSumOfBands ==
  last.op = "_calculate_health_score" =>
    LET label == last.score[1]
        sum == Unclamped(last.arg)
    IN  /\ label = (IF sum < 0 THEN 0 ELSE IF sum > 100 THEN 100 ELSE sum)
        /\ 0 <= label /\ label <= 100

\* C27's case: a row whose adjustments sum above 100 and is clamped
C27_Witness ==
  /\ last.op = "_calculate_health_score"
  /\ Unclamped(last.arg) > 100
  /\ last.arg["Protein"] >= 20
  /\ last.score = <<100>>


-----------------------------------------------------------------------------
(* Further properties of the HealthScoreModel life cycle, checked under      *)
(* SpecModel.                                                                *)

\* the step is a call on the instance, not the construction of a new one
SameInstance == last'.op # "__init__"

\* C22: a new instance is Untrained; the trained flag becomes true only in a train
\* or load_model call that completes, and no call on a Trained instance (train,
\* train with too few rows, predict, save_model, load_model, failed load_model)
\* resets it.
C22_OneWayTrained ==
  /\ [](last.op = "__init__" => ~is_trained)
  /\ [][SameInstance =>
          /\ is_trained => is_trained'
          /\ (~is_trained /\ is_trained') =>
               /\ last'.op \in {"train", "load_model"}
               /\ last'.raised = ""
               /\ last'.op = "train" => last'.returned = "metrics"]_vars

\* C22's case: a load_model that failed on a Trained instance
C22_Witness ==
  /\ is_trained
  /\ last.op = "load_model"
  /\ last.raised # ""

\* the instance as a call finds it
Artifact == [model |-> model, scaler |-> scaler, is_trained |-> is_trained]

\* the step is a predict_health_score call, direct or made by analyze_product
PredictStep == last'.op = "predict_health_score" /\ <<last, results>>' # <<last, results>>

-----------------------------------------------------------------------------
(* Properties of OCRProcessor.extract_nutrition_values, checked under        *)
(* SpecOcr.                                                                  *)

\* the position of the first occurrence of a line in a text, 0 when there is none
FirstAt(line, text) ==
  LET at == {i \in 1..Len(text) : OccursAt(line, text, i)}
  IN  IF at = {} THEN 0 ELSE CHOOSE i \in at : \A j \in at : i <= j

\* the line comes first among the sodium lines of the text
LeadingSodiumLine(line, text) ==
  /\ FirstAt(line, text) > 0
  /\ \A other \in {LineSodiumMg, LineSodiumG} \ {line} :
       FirstAt(other, text) = 0 \/ FirstAt(line, text) < FirstAt(other, text)

\* the amounts the sample lines give for the nutrients other than sodium, as printed
PrintedAmounts ==
  ("Calories" :> [line |-> LineCalories, amount |-> 450000000])
  @@ ("Protein" :> [line |-> LineProtein, amount |-> 12000000])
  @@ ("SaturatedFat" :> [line |-> LineSaturatedFat, amount |-> 6000000])
  @@ ("Calcium" :> [line |-> LineCalcium, amount |-> 120000000])

\* C29: extract_nutrition_values returns a sodium amount that the label gives in
\* milligrams in grams (150 mg as 0.15), returns a sodium amount given in grams
\* (on a sodium or on a salt line) unchanged, and rescales no other nutrient.
C29_SodiumInGrams ==
  ocr.called =>
    /\ LeadingSodiumLine(LineSodiumMg, ocr.text) => ocr.nutrition_data["Sodium"] = 150000
    /\ LeadingSodiumLine(LineSodiumG, ocr.text) => ocr.nutrition_data["Sodium"] = 150000
    /\ (/\ FirstAt(LineSodiumMg, ocr.text) = 0
        /\ FirstAt(LineSodiumG, ocr.text) = 0
        /\ FirstAt(LineSalt, ocr.text) > 0) => ocr.nutrition_data["Sodium"] = 1500000
    /\ \A nutrient \in DOMAIN PrintedAmounts :
         FirstAt(PrintedAmounts[nutrient].line, ocr.text) > 0
           => ocr.nutrition_data[nutrient] = PrintedAmounts[nutrient].amount

-----------------------------------------------------------------------------
(* Properties of RateLimiter.is_allowed, checked under SpecLimiter.          *)

\* the calls of a client answered True in the window of length window_seconds
\* that ends at time s, (s - window_seconds, s]
AllowedIn(client_id, s) ==
  {i \in DOMAIN calls : /\ calls[i].client_id = client_id
                        /\ calls[i].allowed
                        /\ calls[i].time > s - window_seconds
                        /\ calls[i].time <= s}

\* the answers a fresh limiter gives to a sequence of calls
RECURSIVE Replay(_, _)
Replay(made, recorded) ==
  IF made = <<>> THEN <<>>
  ELSE LET answer == is_allowed(max_requests, window_seconds, recorded,
                                Head(made).client_id, Head(made).time)
       IN  <<answer.allowed>> \o Replay(Tail(made), answer.requests)

\* the calls of one client, in order
CallsOf(client_id) == SelectSeq(calls, LAMBDA c : c.client_id = client_id)

\* C30: with a clock that never goes back, a client gets at most max_requests True
\* answers in any window of length window_seconds (the window that ends at s holds
\* the times t with s - window_seconds < t <= s); a denied call leaves the client's
\* recorded times as they were; and a client's answers are those it would get from
\* a limiter no other client had called.
C30_RateLimit ==
  /\ \A client_id \in Clients, s \in 0..now :
       Cardinality(AllowedIn(client_id, s)) <= max_requests
  /\ \A i \in DOMAIN calls : ~calls[i].allowed => calls[i].after = calls[i].before
  /\ \A client_id \in Clients :
       LET own == CallsOf(client_id)
       IN  Replay(own, NoRequests) = [i \in DOMAIN own |-> own[i].allowed]

\* a client that used up its limit is denied, the other client is served meanwhile,
\* and the first client is served again once the window has passed
C30_Witness ==
  \E i, j, k, l \in DOMAIN calls :
    /\ i < j /\ j < k /\ k < l
    /\ calls[i].client_id = "session" /\ calls[i].allowed
    /\ calls[j].client_id = "session" /\ ~calls[j].allowed
    /\ Cardinality(AllowedIn("session", calls[j].time)) = max_requests
    /\ calls[k].client_id = "anonymous" /\ calls[k].allowed
    /\ calls[l].client_id = "session" /\ calls[l].allowed

-----------------------------------------------------------------------------
(* Properties of a HealthScoreModel shared by threads, checked under         *)
(* SpecShared.                                                               *)

\* C23: a predict_health_score call on a Trained instance that runs while another
\* thread is in train or load_model never combines a scaler and a regression model
\* of different training runs: every score it returns was computed by a scaler and
\* a model fitted in the same run.
C23_OneRunPerPrediction ==
  (last.op = "predict_health_score" /\ last.raised = "")
    => last.pre.model.run = last.pre.scaler.run
====
